---- MODULE Spec2Model ----
(***************************************************************************)
(* Verification model of the chunked structure-reconstruction pipeline of  *)
(* process_legislation: the two-pass extraction orchestrator (gpt.py and   *)
(* pipeline/extract_chunks.py), the pass-2 chunk planner, the type/number  *)
(* canonicalisation, the rank-based re-parenting, the article              *)
(* de-duplication, the filling of numbering gaps, the post-processing of   *)
(* the flat structure (pipeline/post_process.py), the reconciliation of    *)
(* the extracted entities (ner.py), the pruning, finalisation and cycle    *)
(* breaking of the tree (pipeline/fix_structure.py) and the entity markers *)
(* of annotated files (ner.py, annotation_editor.py).                      *)
(*                                                                         *)
(* Each component has its own state variable (a record whose fields carry  *)
(* the names of the locals of the modelled function) and its own           *)
(* specification; a specification keeps the other components idle.         *)
(***************************************************************************)
EXTENDS Integers, Sequences, FiniteSets, TLC

VARIABLES orch, split, canon, hier, dedup, fill, offs, ner, clean, prune, final, cyc, mark

vars == <<orch, split, canon, hier, dedup, fill, offs, ner, clean, prune, final, cyc, mark>>

(***************************************************************************)
(* Generic helpers                                                         *)
(***************************************************************************)
Range(s) == {s[i] : i \in 1..Len(s)}

Min(a, b) == IF a <= b THEN a ELSE b

Max(a, b) == IF a >= b THEN a ELSE b

\* Python s[a:b] on a sequence (0-based, b exclusive, clamped).
PySlice(s, a, b) == SubSeq(s, Min(a, Len(s)) + 1, Min(b, Len(s)))

\* Python s[a:]
PyFrom(s, a) == PySlice(s, a, Len(s))

(***************************************************************************)
(* ExtractionOrchestrator: process_single_arabic (gpt.py) and run_passes   *)
(* (pipeline/extract_chunks.py).                                           *)
(*                                                                         *)
(* The generation service is opaque: every call either raises or returns   *)
(* a reply, chosen nondeterministically.  Tree nodes are identified by     *)
(* their origin: a pass-1 skeleton node, a parent created for an           *)
(* inherited-context envelope, the array parsed from the first reply to a  *)
(* chunk, or an array recovered for it by the repair call or by a half.    *)
(***************************************************************************)

\* Largest number of pass-2 chunks of a document in the model.
MaxChunks == 3

PSA == "process_single_arabic"
RP  == "run_passes"

\* Envelope of a pass-2 reply: 0 no "Inherited context:" line; -1 a line
\* whose fields do not parse; k > 0 a line naming the node with key k.
\* Key 1 is a skeleton node with a children list, key 2 a skeleton node
\* without a "children" field, key 3 a heading absent from the skeleton.
EnvNone == 0
EnvBad  == 0 - 1
KeyWithChildren == 1
KeyNoChildren   == 2
Node(kind, n) == [kind |-> kind, n |-> n]

\* find_node(structure_tree, type, number): the heading nodes of the tree
\* live at the root in this model.
find_node(tree, key) ==
    \E n \in Range(tree.root) : n.kind \in {"skel", "parent"} /\ n.n = key

\* Target resolution: with a parsed envelope the parent is looked up, or
\* created and appended to the root; target_tree = parent.get("children",
\* []) is the parent's list, or a fresh list that no node owns when the
\* parent has no "children" field.  Targets: 0 root, -1 unowned list,
\* k > 0 children of the node with key k.
TargetRoot     == 0
TargetDetached == 0 - 1

\* merge_chunk_structure(target_tree, chunk_array) / target_tree.extend:
\* the nodes end in the target list.
Merge(tree, target, nodes) ==
    IF target = TargetRoot THEN [tree EXCEPT !.root = @ \o nodes]
    ELSE IF target = TargetDetached THEN tree
    ELSE [tree EXCEPT !.kids[target] = @ \o nodes]

\* A failed pass 1 is swallowed and pass 2 starts on an empty skeleton.
AfterPass1_swallowed(impl, r) == "call"

\* Position reached after the pass-1 reply r.
AfterPass1(impl, r) ==
    IF r \in {"raise", "invalid"} THEN "aborted"
    ELSE IF r = "nostructure" /\ impl = PSA THEN "aborted"
    ELSE "call"

\* The halves are retried again while they recover nothing.
AfterHalves_until_recovered(recovered) ==
    IF recovered = 0 THEN "half1" ELSE "call"

\* Position after the two halves of a chunk were retried.
AfterHalves(recovered) == "call"

OrchInit ==
    LET EmptyTree ==
            [root |-> <<>>, haschildren |-> {}, kids |-> [k \in 1..3 |-> <<>>]]
    IN  \E impl \in {PSA, RP}, n \in 1..MaxChunks :
            orch = [impl |-> impl,
                    pc |-> "pass1",
                    nchunks |-> n,
                    idx |-> 1,
                    pass1 |-> "pending",
                    structure_tree |-> EmptyTree,
                    inherited |-> EnvNone,
                    \* history: the chunk whose reply "inherited" was taken
                    \* from and the chunk whose tail "prev_tail" holds (0 none)
                    inherited_from |-> 0,
                    prev_tail |-> 0,
                    target |-> TargetRoot,
                    recovered |-> 0,
                    ncalls |-> 0,
                    pass2_sent |-> FALSE,
                    outcome |-> [k \in 1..MaxChunks + 1 |-> "none"],
                    saved |-> FALSE]

\* Pass 1: one call; failure aborts the document.
Pass1 ==
    LET \* structure_tree = full_obj["structure"]: the skeleton nodes at the root;
        \* only the node with key 1 came with a "children" field.
        TreeOfSkeleton(sk) ==
            [root |-> sk,
             haschildren |-> {n.n : n \in {m \in Range(sk) : m.n = KeyWithChildren}},
             kids |-> [k \in 1..3 |-> <<>>]]
        \* The skeleton of a good pass-1 reply: one heading that came with a
        \* "children" list and one that came without the field.
        Skeleton == <<Node("skel", KeyWithChildren), Node("skel", KeyNoChildren)>>
        \* Outcomes of the pass-1 call: the call raises, the reply is not JSON, the
        \* reply is a JSON object without a "structure" list, the reply is good.
        Pass1Replies == {"raise", "invalid", "nostructure", "ok"}
    IN  /\ orch.pc = "pass1"
        /\ \E r \in Pass1Replies :
             /\ orch' = [orch EXCEPT
                    !.pass1 = r,
                    !.ncalls = 1,
                    !.pc = AfterPass1(orch.impl, r),
                    !.structure_tree =
                        IF AfterPass1(orch.impl, r) = "call"
                        THEN TreeOfSkeleton(IF r = "ok" THEN Skeleton ELSE <<>>)
                        ELSE @]

\* The chunk's array is known: resolve the target, then merge or bisect.
WithArray(o, env, nodes) ==
    LET \* Is the chunk retried in two halves once its array is known?
        NeedsBisect(impl, nodes_) == impl = PSA /\ nodes_ = <<>>
        ResolveTarget(tree, env_) ==
            IF env_ > 0
            THEN IF find_node(tree, env_) /\ env_ \notin tree.haschildren
                 THEN TargetDetached
                 ELSE env_
            ELSE TargetRoot
        ResolveTree(tree, env_) ==
            IF env_ > 0 /\ ~find_node(tree, env_)
            THEN [tree EXCEPT !.root = Append(@, Node("parent", env_)),
                              !.haschildren = @ \cup {env_}]
            ELSE tree
        tree   == ResolveTree(o.structure_tree, env)
        target == ResolveTarget(o.structure_tree, env)
    IN  IF NeedsBisect(o.impl, nodes)
        THEN [o EXCEPT !.structure_tree = tree, !.target = target,
                       !.recovered = 0, !.pc = "half1"]
        ELSE [o EXCEPT !.structure_tree = Merge(tree, target, nodes),
                       !.target = target,
                       !.prev_tail = o.idx,
                       !.idx = @ + 1,
                       !.pc = "call"]

EnvOfInherited(o) == o.inherited

\* Pass 2, first call of chunk idx.
Pass2Call ==
    LET \* History of a chunk, for the properties: "good" its first reply parsed to
        \* an array of nodes, "malformed" its first reply was not JSON, "bad" it was
        \* not JSON and the repair call recovered no list, "other" anything else.
        ReplyOutcome(body) ==
            IF body = "nodes" THEN "good"
            ELSE IF body = "malformed" THEN "malformed"
            ELSE "other"
        \* What happens when the pass-2 call of a chunk raises.
        OnCallRaise(impl) == IF impl = PSA THEN "call" ELSE "raised"
        \* Does the JSON part of a pass-2 reply send the chunk to repair_chunk_json?
        NeedsRepair(impl, body) ==
            \/ body = "malformed"
            \/ body = "scalar" /\ impl = PSA
        \* JSON part of a pass-2 reply: not JSON, an empty array, an array (or a
        \* single object) of nodes, a JSON value that is neither object nor array.
        Bodies == {"malformed", "empty", "nodes", "scalar"}
        Envelopes ==
                 LET KeyAbsent       == 3
                 IN  {EnvNone, EnvBad, KeyWithChildren, KeyNoChildren, KeyAbsent}
    IN  /\ orch.pc = "call"
        /\ orch.idx <= orch.nchunks
        /\ \/ \* the call raises
              orch' = [orch EXCEPT
                    !.ncalls = 1,
                    !.pass2_sent = TRUE,
                    !.outcome[orch.idx] = "other",
                    !.pc = OnCallRaise(orch.impl),
                    !.idx = IF OnCallRaise(orch.impl) = "call" THEN @ + 1 ELSE @]
           \/ \E env \in Envelopes, body \in Bodies :
                LET o1 == [orch EXCEPT
                            !.ncalls = 1,
                            !.pass2_sent = TRUE,
                            !.outcome[orch.idx] = ReplyOutcome(body),
                            !.inherited = env,
                            !.inherited_from = orch.idx]
                IN  IF NeedsRepair(orch.impl, body)
                    THEN orch' = [o1 EXCEPT !.pc = "repair"]
                    ELSE orch' = WithArray(o1, IF env = EnvBad THEN EnvNone ELSE env,
                                           IF body = "nodes"
                                           THEN <<Node("chunk", orch.idx)>>
                                           ELSE <<>>)

\* repair_chunk_json: one more call; never raises.
Pass2Repair ==
    LET RepairOutcome(before, out) ==
            IF before = "malformed" /\ out = "fail" THEN "bad" ELSE "other"
        \* Outcomes of repair_chunk_json: None (the call raised, or its reply was
        \* not JSON, or held no list), an empty list, a list of nodes.
        RepairOutcomes == {"fail", "empty", "nodes"}
    IN  /\ orch.pc = "repair"
        /\ \E out \in RepairOutcomes :
             LET o1 == [orch EXCEPT
                         !.ncalls = @ + 1,
                         !.outcome[orch.idx] = RepairOutcome(@, out)]
                 env == IF orch.inherited = EnvBad THEN EnvNone ELSE orch.inherited
             IN  orch' = WithArray(o1, env,
                                   IF out = "nodes"
                                   THEN <<Node("retry", orch.idx)>>
                                   ELSE <<>>)

\* Bisection retry: one call per half; a failing half is skipped.
Pass2Half ==
    /\ orch.pc \in {"half1", "half2"}
    /\ \E ok \in BOOLEAN, body \in {"empty", "nodes"} :
         LET nodes == IF ok /\ body = "nodes"
                      THEN <<Node("retry", orch.idx)>> ELSE <<>>
             rec   == orch.recovered + Len(nodes)
             o1    == [orch EXCEPT
                        !.ncalls = @ + 1,
                        !.structure_tree = Merge(@, orch.target, nodes),
                        !.recovered = rec]
         IN  /\ ~ok => body = "empty"
             /\ IF orch.pc = "half1"
                THEN orch' = [o1 EXCEPT !.pc = "half2"]
                ELSE orch' = [o1 EXCEPT
                        !.pc = AfterHalves(rec),
                        !.recovered = 0,
                        !.prev_tail = IF AfterHalves(rec) = "call"
                                      THEN orch.idx ELSE @,
                        !.idx = IF AfterHalves(rec) = "call" THEN @ + 1 ELSE @]

\* All chunks consumed: the structure is written (process_single_arabic)
\* or returned to the caller that writes it (run_passes).
Finish ==
    /\ orch.pc = "call"
    /\ orch.idx > orch.nchunks
    /\ orch' = [orch EXCEPT !.pc = "done", !.saved = TRUE]

OrchNext == Pass1 \/ Pass2Call \/ Pass2Repair \/ Pass2Half \/ Finish

\* Claim C1: when a pass-2 chunk came back as malformed JSON and could not
\* be repaired, the run still ends with every chunk sent, and the nodes
\* parsed from every well-formed chunk reply are in the final tree.
C1_BadChunkLeavesOnlyItsGap ==
    LET \* Nodes reachable from the root list of the tree.
        Reachable(tree) ==
            Range(tree.root) \cup
            UNION { Range(tree.kids[k]) :
                      k \in {j \in tree.haschildren : find_node(tree, j)} }
    IN  (orch.pc = "done" /\ \E b \in 1..orch.nchunks : orch.outcome[b] = "bad")
            => /\ \A k \in 1..orch.nchunks : orch.outcome[k] # "none"
               /\ \A k \in 1..orch.nchunks :
                     orch.outcome[k] = "good"
                         => Node("chunk", k) \in Reachable(orch.structure_tree)

\* Claim C2: when the pass-1 call raises or its reply is not valid JSON,
\* the document is aborted: no pass-2 chunk is ever sent and no structure
\* is produced or written.
C2_Pass1FailureAborts ==
    orch.pass1 \in {"raise", "invalid"}
        => orch.pc = "aborted" /\ ~orch.pass2_sent /\ ~orch.saved

\* Pass 1 of run_passes returned text that is not JSON and the run ended.
C2_Witness ==
    orch.impl = RP /\ orch.pass1 = "invalid" /\ orch.pc = "aborted"

\* Claim C3: in run_passes a pass-2 call that raises abandons only its
\* chunk: the error never leaves run_passes.
C3_RaisingCallAbandonsOnlyItsChunk ==
    orch.impl = RP => orch.pc # "raised"

\* Claim C4: process_single_arabic makes at most four calls for a chunk:
\* the first call, at most one repair call, and one call for each half of
\* a single bisection; it is then at the next chunk.
C4_AtMostFourCallsPerChunk ==
    orch.impl = PSA
        => /\ orch.ncalls <= 4
           /\ orch.pc = "repair" => orch.ncalls = 1
           /\ orch.pc = "half1" => orch.ncalls <= 2
           /\ orch.pc = "half2" => orch.ncalls <= 3

\* A chunk took four calls and process_single_arabic went on to the next.
C4_Witness ==
    /\ orch.impl = PSA
    /\ orch.ncalls = 4
    /\ orch.pc = "call"
    /\ orch.idx > 1
    /\ orch.idx <= orch.nchunks

\* Claim C21: when the reply to a pass-2 chunk carries an inherited-context
\* envelope, after the merge step every node of the chunk's array is a
\* descendant, in the tree reachable from the root, of the node the envelope
\* names, whether that node was in the tree (with or without a children
\* field) or had to be created.
C21_ChunkNodesUnderEnvelopeNode ==
    \A j \in 1..orch.nchunks :
        (/\ orch.pc \in {"call", "done"}
         /\ orch.idx = j + 1
         /\ orch.prev_tail = j
         /\ orch.inherited_from = j
         /\ orch.inherited > 0
         /\ orch.outcome[j] = "good")
            => /\ find_node(orch.structure_tree, orch.inherited)
               /\ orch.inherited \in orch.structure_tree.haschildren
               /\ Node("chunk", j) \in
                      Range(orch.structure_tree.kids[orch.inherited])

\* Claim C22: in process_single_arabic the context carried into the call
\* for chunk k+1 comes from chunk k, whatever became of chunk k: the overlap
\* text is the tail of chunk k and the inherited-context marker is empty or
\* the envelope line of the reply to chunk k.
C22_ContextComesFromPreviousChunk ==
    (orch.impl = PSA /\ orch.pc = "call" /\ orch.idx > 1)
        => /\ orch.prev_tail = orch.idx - 1
           /\ orch.inherited # EnvNone => orch.inherited_from = orch.idx - 1

(***************************************************************************)
(* ChunkPlanner: smart_token_split and split_for_pass2 (gpt.py and         *)
(* pipeline/gpt_helpers.py).                                               *)
(*                                                                         *)
(* A text is a sequence of characters over a three-letter alphabet: "a" a  *)
(* letter, "n" the newline, "p" a sentence-terminal punctuation mark.  The *)
(* tokenizer merges two adjacent letters into one token, as a byte-pair    *)
(* encoder does, so a token is a sequence of one or two characters and     *)
(* re-encoding a decoded token window need not give back the same tokens.  *)
(***************************************************************************)

\* Longest input text of the model.
MaxTextLen == 6

\* Most chunks the planner may emit in the model (caps a planner that
\* stops advancing: one that advances at least every second iteration
\* emits fewer than twice as many chunks as the text has tokens).
MaxEmitted == 14

\* overlap: the token overlap carried between chunks, scaled from 256.
Overlap == 2

\* enc.encode
RECURSIVE encode(_)
encode(text) ==
    IF text = <<>> THEN <<>>
    ELSE IF Len(text) >= 2 /\ text[1] = "a" /\ text[2] = "a"
         THEN <<SubSeq(text, 1, 2)>> \o encode(SubSeq(text, 3, Len(text)))
         ELSE <<SubSeq(text, 1, 1)>> \o encode(Tail(text))

PIPELINE == "pipeline"

SplitIdle == split = [pc |-> "idle"]

\* The calls of split_for_pass2: the state at the head of the loop.
SplitCalls ==
    LET GPT      == "gpt"
        Texts ==
             LET RECURSIVE TextsOfLen(_)
                 TextsOfLen(n) ==
                     LET Chars == {"a", "n", "p"}
                     IN  IF n = 0 THEN {<<>>}
                         ELSE {Append(t, c) : t \in TextsOfLen(n - 1), c \in Chars}
             IN  UNION {TextsOfLen(n) : n \in 0..MaxTextLen}
        \* chunk_limit = max(100, compute_pass2_chunk_limit() - overlap), scaled.
        ChunkLimits == {3, 4}
    IN  {[pc |-> "loop",
          impl |-> impl,
          arabic_text |-> text,
          tokens |-> encode(text),
          chunk_limit |-> limit,
          i |-> 0,
          prev_tail |-> <<>>,
          chunks |-> <<>>] :
            impl \in {GPT, PIPELINE}, text \in Texts, limit \in ChunkLimits}

SplitInit == split \in SplitCalls

\* split_for_pass2(arabic_text) is called.
SplitCall ==
    /\ split.pc = "start"
    /\ split' \in SplitCalls

\* The planner that keeps the overlap tail when the chunk is empty.
Advance_keeping_tail(s, this_chunk, chunk_tokens) ==
    [s EXCEPT !.chunks = Append(@, this_chunk),
              !.prev_tail = IF chunk_tokens = <<>> THEN @
                            ELSE SubSeq(chunk_tokens,
                                        Max(1, Len(chunk_tokens) - Overlap + 1),
                                        Len(chunk_tokens)),
              !.i = @ + Len(chunk_tokens)]

\* chunks.append(this_chunk); prev_tail = chunk_tokens[-overlap:];
\* i += len(chunk_tokens)
Advance(s, this_chunk, chunk_tokens) ==
    [s EXCEPT !.chunks = Append(@, this_chunk),
              !.prev_tail = SubSeq(chunk_tokens,
                                   Max(1, Len(chunk_tokens) - Overlap + 1),
                                   Len(chunk_tokens)),
              !.i = @ + Len(chunk_tokens)]

\* One iteration of the while loop of split_for_pass2.
SplitIter ==
    LET \* enc.decode
        RECURSIVE decode(_)
        decode(tokens) ==
            IF tokens = <<>> THEN <<>> ELSE Head(tokens) \o decode(Tail(tokens))
        smart_token_split(arabic_text, token_limit) ==
            LET \* str.rfind for a one-character needle: 0-based index, -1 if absent.
                rfind(text, c) ==
                    LET I == {i \in 1..Len(text) : text[i] = c}
                    IN  IF I = {} THEN 0 - 1 ELSE (CHOOSE i \in I : \A j \in I : j <= i) - 1
                RECURSIVE SplitFrom(_, _, _)
                SplitFrom(tokens, idx, token_limit__) ==
                    LET \* End of the chunk of smart_token_split that starts at token idx.
                        ActualEnd(tokens_, idx_, token_limit_) ==
                            LET \* The cut point of a slice: the last newline, else the last punctuation.
                                CutPoint(slice_text) ==
                                    IF rfind(slice_text, "n") >= 0 THEN rfind(slice_text, "n")
                                    ELSE rfind(slice_text, "p")
                                end        == Min(idx_ + token_limit_, Len(tokens_))
                                slice_text == decode(PySlice(tokens_, idx_, end))
                                cut        == CutPoint(slice_text)
                            IN  IF 0 <= cut /\ cut < Len(slice_text) - 1
                                THEN idx_ + Len(encode(PySlice(slice_text, 0, cut + 1)))
                                ELSE end
                    IN  IF idx >= Len(tokens) THEN <<>>
                        ELSE LET actual_end == ActualEnd(tokens, idx, token_limit__)
                             IN  <<decode(PySlice(tokens, idx, actual_end))>>
                                 \o SplitFrom(tokens, actual_end, token_limit__)
            IN  SplitFrom(encode(arabic_text), 0, token_limit)
        \* Does the planner stop when the stripped chunk has no token?
        StopsOnEmptyChunk(impl) == impl = PIPELINE
        \* The tokens of the chunk emitted for a window, the overlap tail stripped.
        ChunkTokens(window, prev_tail, chunk_limit) ==
            LET subchunks == smart_token_split(decode(window), chunk_limit)
                toks      == encode(subchunks[1])
            IN  IF prev_tail # <<>> THEN PyFrom(toks, Len(prev_tail)) ELSE toks
    IN  /\ split.pc = "loop"
        /\ split.i < Len(split.tokens)
        /\ Len(split.chunks) < MaxEmitted
        /\ LET window == split.prev_tail \o
                         PySlice(split.tokens, split.i,
                                 Min(split.i + split.chunk_limit, Len(split.tokens)))
               chunk_tokens == ChunkTokens(window, split.prev_tail, split.chunk_limit)
           IN  IF StopsOnEmptyChunk(split.impl) /\ chunk_tokens = <<>>
               THEN split' = [split EXCEPT !.pc = "done"]
               ELSE split' = Advance(split, decode(chunk_tokens), chunk_tokens)

\* The loop condition fails: the chunks are returned.
SplitReturn ==
    /\ split.pc = "loop"
    /\ split.i >= Len(split.tokens)
    /\ split' = [split EXCEPT !.pc = "done"]

SplitNext == SplitIter \/ SplitReturn

\* C5: when split_for_pass2 of pipeline/gpt_helpers.py returns, its chunks,
\* concatenated in order, equal the input text: nothing is missing and
\* nothing is repeated.
C5_ChunksReconstructInput ==
    LET \* The emitted chunks joined in order.
        RECURSIVE Concat(_)
        Concat(chunks) ==
            IF chunks = <<>> THEN <<>> ELSE Head(chunks) \o Concat(Tail(chunks))
    IN  (split.pc = "done" /\ split.impl = PIPELINE)
            => Concat(split.chunks) = split.arabic_text

\* C6: every chunk emitted by split_for_pass2 is non-empty, in gpt.py and
\* in pipeline/gpt_helpers.py alike.
C6_ChunksNonEmpty ==
    split.pc \in {"loop", "done"}
        => \A j \in 1..Len(split.chunks) : split.chunks[j] # <<>>

\* Claim C30: split_for_pass2 terminates, in gpt.py and in
\* pipeline/gpt_helpers.py, on every text and chunk limit: a call whose
\* loop iterations are run one after the other returns, also when a window
\* leaves an empty chunk once the overlap tail is stripped.
C30_PlannerTerminates == (split.pc = "loop") ~> (split.pc = "done")

\* The planner of gpt.py returned after a window had left it an empty
\* chunk, which it emitted before going on with the rest of the text.
C30_Witness ==
    /\ split.pc = "done"
    /\ split.impl # PIPELINE
    /\ split.i >= Len(split.tokens)
    /\ \E j \in 1..(Len(split.chunks) - 1) :
          split.chunks[j] = <<>> /\ split.chunks[j + 1] # <<>>

(***************************************************************************)
(* Canonicalisation: canonical_type and clean_number                       *)
(* (pipeline/gpt_helpers.py, pipeline/fix_structure.py).                   *)
(*                                                                         *)
(* A string is a sequence of characters.  The Arabic letters are written   *)
(* in Latin transliteration, one name per letter; "i1" and "i2" are the    *)
(* Arabic-Indic digits one and two.                                        *)
(***************************************************************************)

\* Most pieces an input string of the model is made of.
MaxParts == 3

AL   == <<"A", "L">>                    \* the definite article
FASL == <<"F", "S", "L">>               \* chapter/article heading word
MADA == <<"M", "A", "D", "H">>
QISM == <<"Q", "s", "M">>
BAB  == <<"B", "A", "B">>
JUZ  == <<"J", "Z", "'">>
FAR  == <<"F", "R", "E">>
TA   == <<"T">>                         \* a letter of no known word
AWAL == <<"A", "L", "a", "W", "L">>     \* the ordinal "first"
KindWords == {FASL, MADA, QISM, BAB, JUZ, FAR}

RECURSIVE lstrip(_)
lstrip(s) == IF s # <<>> /\ Head(s) = " " THEN lstrip(Tail(s)) ELSE s

\* str.strip
strip(s) ==
        LET RECURSIVE rstrip(_)
            rstrip(s_) ==
                IF s_ # <<>> /\ s_[Len(s_)] = " " THEN rstrip(SubSeq(s_, 1, Len(s_) - 1)) ELSE s_
        IN  rstrip(lstrip(s))

\* str.startswith
startswith(s, prefix) ==
    Len(s) >= Len(prefix) /\ SubSeq(s, 1, Len(prefix)) = prefix

canonical_type(t) ==
                 LET \* How canonical_type removes a leading definite article.
                     StripArticle(s) == IF startswith(s, AL) THEN PyFrom(s, 2) ELSE s
                     \* ARTICLE_TYPE_MAP.get(s, s)
                     ARTICLE_TYPE_MAP(s) ==
                         IF s \in KindWords THEN s
                         ELSE IF \E w \in KindWords : s = AL \o w
                              THEN CHOOSE w \in KindWords : s = AL \o w
                              ELSE s
                 IN  ARTICLE_TYPE_MAP(StripArticle(strip(t)))

FIX_STRUCTURE == "fix_structure"
GPT_HELPERS   == "gpt_helpers"

\* ARTICLE_TYPES = set(ARTICLE_TYPE_MAP.keys())
ARTICLE_TYPES == KindWords \cup {AL \o w : w \in KindWords}

\* clean_number(node): the node with its number cleaned.
clean_number(impl, node) ==
    LET translate(num) ==
                      LET \* num.translate(_DIGIT_TRANS)
                          TranslateDigit(c) == IF c = "i1" THEN "1" ELSE IF c = "i2" THEN "2" ELSE c
                      IN  [k \in 1..Len(num) |-> TranslateDigit(num[k])]
        TAMHIDI == <<"T", "M", "h", "Y", "D", "Y">>
        \* The guard of clean_number: gpt_helpers.py tests the type as written,
        \* fix_structure.py its canonical form.
        IsArticleType(impl_, type) ==
            IF impl_ = FIX_STRUCTURE THEN canonical_type(type) \in ARTICLE_TYPES
            ELSE type \in ARTICLE_TYPES
        \* The string branch of clean_number, applied to the number.
        CleanNumberString(number) ==
            LET \* str(int(digits)): the leading zeros go.
                RECURSIVE StrInt(_)
                StrInt(digits) ==
                    IF Len(digits) > 1 /\ Head(digits) = "0" THEN StrInt(Tail(digits))
                    ELSE digits
                \* re.search(r"\d+", num).group(0), or <<>> when there is no digit.
                FirstDigitRun(num) ==
                    LET Digits == {"0", "1", "2"}
                        D == {k \in 1..Len(num) : num[k] \in Digits}
                    IN  IF D = {} THEN <<>>
                        ELSE LET b == CHOOSE k \in D : \A l \in D : k <= l
                                 E == {e \in b..Len(num) :
                                         /\ \A k \in b..e : num[k] \in Digits
                                         /\ (e = Len(num) \/ num[e + 1] \notin Digits)}
                                 e == CHOOSE x \in E : TRUE
                             IN  SubSeq(num, b, e)
                \* re.sub(r"^(?:heading word)\s*", "", num): the first alternative that
                \* matches at the start is removed with the white space after it.
                StripHeading(num) ==
                    LET \* The heading words of the regular expression of clean_number, in the
                        \* order of its alternation.
                        HeadingWords ==
                            <<AL \o FASL, FASL, AL \o MADA, MADA, AL \o BAB, BAB,
                              AL \o QISM, QISM, AL \o JUZ, JUZ>>
                        M == {k \in 1..Len(HeadingWords) : startswith(num, HeadingWords[k])}
                    IN  IF M = {} THEN num
                        ELSE LET k == CHOOSE j \in M : \A l \in M : j <= l
                             IN  lstrip(PyFrom(num, Len(HeadingWords[k])))
                \* _ORDINAL_MAP.get(num, num), for the ordinals of the model
                ORDINAL_MAP(num) ==
                    IF num = AWAL THEN <<"1">>
                    ELSE IF num = TAMHIDI THEN <<"0">>
                    ELSE num
                num1 == strip(StripHeading(number))
                num2 == translate(num1)
                num3 == IF num2 = TAMHIDI THEN <<"0">> ELSE num2
                num4 == ORDINAL_MAP(num3)
            IN  IF FirstDigitRun(num4) # <<>> THEN StrInt(FirstDigitRun(num4))
                ELSE num4
    IN  IF IsArticleType(impl, node.type)
        THEN [node EXCEPT !.number = CleanNumberString(node.number)]
        ELSE node

CanonIdle == canon = [pc |-> "idle"]

\* A node as the generation service may return it.
CanonInit ==
    LET SP   == <<" ">>
        RECURSIVE StringsOf(_, _)
        StringsOf(pieces, n) ==
            IF n = 0 THEN {<<>>}
            ELSE StringsOf(pieces, n - 1) \cup
                 {s \o q : s \in StringsOf(pieces, n - 1), q \in pieces}
        NodeTypes    == {FASL, AL \o FASL, SP \o FASL, TA}
        NumberPieces == {AL \o TA, SP, FASL, AWAL, <<"0">>, <<"1">>, <<"i2">>}
        TypePieces   == {AL, SP, FASL, MADA, TA}
    IN  \E impl \in {GPT_HELPERS, FIX_STRUCTURE},
           t \in StringsOf(TypePieces, MaxParts),
           num \in StringsOf(NumberPieces, MaxParts),
           nt \in NodeTypes :
            /\ (t = FASL /\ nt = FASL) \/ num = <<"1">>
            /\ canon = [pc |-> "ready",
                        impl |-> impl,
                        types |-> <<t>>,
                        node |-> [type |-> nt, number |-> num],
                        numbers |-> <<num>>]

\* canonical_type is applied to the result of the last application.
ApplyCanonicalType ==
    /\ canon.pc = "ready"
    /\ Len(canon.types) < 3
    /\ canon' = [canon EXCEPT
            !.types = Append(@, canonical_type(@[Len(@)]))]

\* clean_number is applied to the node once more.
ApplyCleanNumber ==
    /\ canon.pc = "ready"
    /\ Len(canon.numbers) < 3
    /\ LET n == clean_number(canon.impl, canon.node)
       IN  canon' = [canon EXCEPT !.node = n,
                                  !.numbers = Append(@, n.number)]

CanonNext == ApplyCanonicalType \/ ApplyCleanNumber

\* C7: canonicalisation is idempotent: canonical_type applied twice gives
\* what it gives applied once, for every type string, and clean_number
\* applied twice to a node leaves the number it leaves applied once.
C7_CanonicalizationIdempotent ==
    canon.pc = "ready" =>
        /\ Len(canon.types) = 3 => canon.types[3] = canon.types[2]
        /\ Len(canon.numbers) = 3 => canon.numbers[3] = canon.numbers[2]

(***************************************************************************)
(* TreeRepairEngine: compute_rank_map and fix_hierarchy                    *)
(* (pipeline/fix_structure.py, pipeline/gpt_helpers.py).                   *)
(*                                                                         *)
(* The node objects live in an arena: node k is the k-th node of the flat  *)
(* input list, type[k] is its "type" field and children[k] its "children"  *)
(* list; children[0] is the list handed to fix_hierarchy.                  *)
(***************************************************************************)

\* Most nodes of an input list of the model.
MaxNodes == 4

\* The first occurrences of a sequence, in order.
RECURSIVE FirstSeen(_)
FirstSeen(seq) ==
    IF seq = <<>> THEN <<>>
    ELSE LET init == FirstSeen(SubSeq(seq, 1, Len(seq) - 1))
             last == seq[Len(seq)]
         IN  IF last \in Range(init) THEN init ELSE Append(init, last)

\* Select the elements of a sequence that lie in a set.
RECURSIVE SelectIn(_, _)
SelectIn(seq, S) ==
    IF seq = <<>> THEN <<>>
    ELSE (IF Head(seq) \in S THEN <<Head(seq)>> ELSE <<>>)
         \o SelectIn(Tail(seq), S)

\* The node is pushed first, so the top of the stack is the node itself.
ParentOf_after_push(stack, node) == node

\* parent = stack[-1][0], read before the node is pushed.
ParentOf(stack, node) == stack[Len(stack)].node

RECURSIVE SeqsOfLen(_, _)
SeqsOfLen(S, n) ==
    IF n = 0 THEN {<<>>}
    ELSE {Append(q, x) : q \in SeqsOfLen(S, n - 1), x \in S}

HierIdle == hier = [pc |-> "idle"]

\* Most nodes of a partially nested input list of the model.
MaxNested == 3

\* A flat list of distinct nodes without children, in any order of types,
\* or a partially nested list: a tree in which the parent of a node is the
\* list itself or a node before it (parent[i], kept as given).
HierInit ==
    LET \* The "type" fields of the input nodes: the six kinds, one of them also
        \* with the definite article, and a kind of no known name.
        HierTypes == {QISM, JUZ, BAB, FASL, FAR, MADA, AL \o MADA, TA}
        \* The kinds of the nodes of the nested lists.
        NestedTypes == {QISM, BAB, FASL, AL \o MADA}
    IN  \E impl \in {FIX_STRUCTURE, GPT_HELPERS} :
          \/ \E n \in 1..MaxNodes :
               \E type \in SeqsOfLen(HierTypes, n) :
                 hier = [pc |-> "flat",
                         impl |-> impl,
                         type |-> type,
                         children |-> [k \in 0..n |->
                                         IF k = 0 THEN [j \in 1..n |-> j] ELSE <<>>],
                         parent |-> [i \in 1..n |-> 0],
                         rank_map |-> <<>>]
          \/ \E n \in 2..MaxNested :
               \E type \in SeqsOfLen(NestedTypes, n),
                  parent \in [1..n -> 0..(n - 1)] :
                 /\ \A i \in 1..n : parent[i] < i
                 /\ \E i \in 1..n : parent[i] # 0
                 /\ hier = [pc |-> "nested",
                            impl |-> impl,
                            type |-> type,
                            children |-> [k \in 0..n |->
                                            SelectSeq([i \in 1..n |-> i],
                                                      LAMBDA i : parent[i] = k)],
                            parent |-> parent,
                            rank_map |-> <<>>]

FixHierarchy ==
    LET \* fix_hierarchy(nodes, rank_map) on the list children[owner]; depth bounds
        \* the recursion, which in a tree never goes deeper than there are nodes.
        RECURSIVE fix_hierarchy(_, _, _, _, _)
        fix_hierarchy(type, rank_map, children, owner, depth) ==
            LET RECURSIVE FixEach(_, _, _, _, _, _)
                FixEach(type_, rank_map_, children_, nodes, k, depth_) ==
                    IF k > Len(nodes) \/ depth_ = 0 THEN children_
                    ELSE FixEach(type_, rank_map_,
                                 IF children_[nodes[k]] # <<>>
                                 THEN fix_hierarchy(type_, rank_map_, children_, nodes[k],
                                                    depth_ - 1)
                                 ELSE children_,
                                 nodes, k + 1, depth_)
                \* The for loop of fix_hierarchy over the list nodes, from position k.
                RECURSIVE FixLoop(_, _, _, _, _, _, _)
                FixLoop(type_, rank_map__, children_, nodes, k, stack, new_root) ==
                    LET \* while stack and rank <= stack[-1][1]: stack.pop()
                        RECURSIVE PopStack(_, _)
                        PopStack(stack_, rank) ==
                            IF stack_ # <<>> /\ rank <= stack_[Len(stack_)].rank
                            THEN PopStack(SubSeq(stack_, 1, Len(stack_) - 1), rank)
                            ELSE stack_
                        \* rank_map.get(typ, max(rank_map.values()) + 1)
                        RankOf(rank_map_, typ) ==
                            IF typ \in Range(rank_map_)
                            THEN (CHOOSE k_ \in 1..Len(rank_map_) : rank_map_[k_] = typ) - 1
                            ELSE Len(rank_map_)
                    IN  IF k > Len(nodes) THEN [children |-> children_, new_root |-> new_root]
                        ELSE LET node   == nodes[k]
                                 rank   == RankOf(rank_map__, canonical_type(type_[node]))
                                 popped == PopStack(stack, rank)
                                 pushed == Append(popped, [node |-> node, rank |-> rank])
                             IN  IF popped # <<>>
                                 THEN FixLoop(type_, rank_map__,
                                              [children_ EXCEPT ![ParentOf(popped, node)] =
                                                                    Append(@, node)],
                                              nodes, k + 1, pushed, new_root)
                                 ELSE FixLoop(type_, rank_map__, children_, nodes, k + 1, pushed,
                                              Append(new_root, node))
                r  == FixLoop(type, rank_map, children, children[owner], 1, <<>>, <<>>)
                c1 == [r.children EXCEPT ![owner] = r.new_root]
            IN  FixEach(type, rank_map, c1, r.new_root, 1, depth)
        \* compute_rank_map: the types in the order of their ranks.  fix_structure
        \* ranks the types in first-seen order; gpt_helpers ranks the known kinds
        \* in the order of RANK_MAP and the other types after them.
        compute_rank_map(impl, type, children, nodes) ==
            LET \* The canonical types met by the walk of compute_rank_map, in order.
                RECURSIVE WalkTypes(_, _, _, _)
                WalkTypes(type_, children_, nlist, fuel) ==
                    IF nlist = <<>> \/ fuel = 0 THEN <<>>
                    ELSE <<canonical_type(type_[Head(nlist)])>>
                         \o WalkTypes(type_, children_, children_[Head(nlist)], fuel - 1)
                         \o WalkTypes(type_, children_, Tail(nlist), fuel)
                \* The keys of RANK_MAP, in the order of the dictionary.
                RANK_MAP_KEYS == <<QISM, JUZ, BAB, FASL, FAR, MADA>>
                seen == FirstSeen(WalkTypes(type, children, nodes, Len(type) + 1))
            IN  IF impl = FIX_STRUCTURE
                THEN (IF seen = <<>> THEN RANK_MAP_KEYS ELSE seen)
                ELSE SelectIn(RANK_MAP_KEYS, Range(seen))
                     \o SelectIn(seen, Range(seen) \ Range(RANK_MAP_KEYS))
    IN  /\ hier.pc \in {"flat", "nested"}
        /\ LET rm == compute_rank_map(hier.impl, hier.type, hier.children,
                                      hier.children[0])
           IN  hier' = [hier EXCEPT
                    !.pc = IF hier.pc = "flat" THEN "fixed" ELSE "refixed",
                    !.rank_map = rm,
                    !.children = fix_hierarchy(hier.type, rm, hier.children, 0,
                                               Len(hier.type) + 1)]

HierNext == FixHierarchy

Descendants(children, x) ==
    LET \* The nodes below the nodes of S.
        RECURSIVE Below(_, _, _)
        Below(children_, S, fuel) ==
            LET T == S \cup UNION {Range(children_[x_]) : x_ \in S}
            IN  IF T = S \/ fuel = 0 THEN S ELSE Below(children_, T, fuel - 1)
    IN  IF children[x] = <<>> THEN {}
        ELSE Below(children, Range(children[x]), Cardinality(DOMAIN children))

\* C8: in the tree fix_hierarchy builds from a flat list of distinct nodes,
\* whatever their order, no node is its own descendant.
C8_FixHierarchyAcyclic ==
    hier.pc = "fixed" =>
        \A x \in 1..Len(hier.type) : x \notin Descendants(hier.children, x)

\* A list of three nodes or more was nested at least two levels deep.
C8_Witness ==
    /\ hier.pc = "fixed"
    /\ \E x, y, z \in 1..Len(hier.type) :
         /\ x \in Range(hier.children[0])
         /\ y \in Range(hier.children[x])
         /\ z \in Range(hier.children[y])

\* Claim C25: after fix_hierarchy on a flat or partially nested input list,
\* the children of every node all have a rank strictly greater than the rank
\* of the node, under the rank map the tree was built with.
C25_ChildrenRankedBelowParent ==
    LET \* rank_map.get(typ, max(rank_map.values()) + 1) of the node's type
        Rank(x) ==
            LET typ == canonical_type(hier.type[x])
            IN  IF typ \in Range(hier.rank_map)
                THEN (CHOOSE r \in 1..Len(hier.rank_map) : hier.rank_map[r] = typ) - 1
                ELSE Len(hier.rank_map)
    IN  hier.pc \in {"fixed", "refixed"}
            => \A x \in 1..Len(hier.type) :
                  \A c \in Range(hier.children[x]) : Rank(c) > Rank(x)

(***************************************************************************)
(* DuplicateResolver: flatten_articles and remove_duplicate_articles       *)
(* (pipeline/hierarchy_builder.py), in the order in which post_process_data*)
(* and the upload handlers run them.                                       *)
(*                                                                         *)
(* The nodes live in an arena, numbered in the document order of the raw   *)
(* tree: type[k], number[k] and text[k] (the length of the text) are the   *)
(* fields of node k, children[k] is its list and children[0] the root      *)
(* list.  The entry 0 in a list is None, the tombstone of a removed node.  *)
(***************************************************************************)

\* Most nodes of a raw tree of the model.
MaxTreeNodes == 4

\* The article numbers and the text lengths of the model.
ArticleNumbers == {1, 2}
NONE == 0

\* canonical_type of hierarchy_builder.py: the definite article is removed
\* only in front of a known kind.
hb_canonical_type(t) ==
    LET \* TYPE_MAP.get(s, s) of hierarchy_builder.py
        TYPE_MAP(s) ==
            IF \E w \in KindWords : s = AL \o w
            THEN CHOOSE w \in KindWords : s = AL \o w
            ELSE s
        s == strip(t)
    IN  TYPE_MAP(IF startswith(s, AL) /\ PyFrom(s, 2) \in KindWords
                 THEN PyFrom(s, 2) ELSE s)

IsArticle(type, k) == hb_canonical_type(type[k]) = MADA

\* Insert the sequence ins into seq after position i (children[i+1:i+1] =).
InsertAfter(seq, i, ins) ==
    SubSeq(seq, 1, i) \o ins \o SubSeq(seq, i + 1, Len(seq))

flatten_articles(type, children) ==
                                LET \* flatten_articles on the list children[owner], from position i: the
                                    \* children of an article become its next siblings.
                                    RECURSIVE FlattenFrom(_, _, _, _)
                                    FlattenFrom(type_, children_, owner, i) ==
                                        IF i > Len(children_[owner]) THEN children_
                                        ELSE LET node == children_[owner][i]
                                             IN  IF IsArticle(type_, node) /\ children_[node] # <<>>
                                                 THEN FlattenFrom(type_,
                                                         [children_ EXCEPT
                                                            ![owner] = InsertAfter(@, i, children_[node]),
                                                            ![node] = <<>>],
                                                         owner, i + 1)
                                                 ELSE IF children_[node] # <<>>
                                                 THEN FlattenFrom(type_, FlattenFrom(type_, children_, node, 1),
                                                                  owner, i + 1)
                                                 ELSE FlattenFrom(type_, children_, owner, i + 1)
                                IN  FlattenFrom(type, children, 0, 1)

Occurrences(type, children) ==
    LET \* walk: the article occurrences (parent list, index, node) in traversal
        \* order; the position in the result is the traversal order plus one.
        RECURSIVE WalkFrom(_, _, _, _, _)
        WalkFrom(type_, children_, owner, idx, fuel) ==
            IF idx > Len(children_[owner]) \/ fuel = 0 THEN <<>>
            ELSE LET node == children_[owner][idx]
                 IN  (IF node # NONE /\ IsArticle(type_, node)
                      THEN <<[parent |-> owner, idx |-> idx, node |-> node]>>
                      ELSE <<>>)
                     \o (IF node # NONE /\ children_[node] # <<>>
                         THEN WalkFrom(type_, children_, node, 1, fuel - 1)
                         ELSE <<>>)
                     \o WalkFrom(type_, children_, owner, idx + 1, fuel)
    IN  WalkFrom(type, children, 0, 1, Cardinality(DOMAIN children))

\* The traversal orders (positions in occs) of the occurrences of num.
OrdersOf(occs, number, num) ==
    {o \in 1..Len(occs) : number[occs[o].node] = num}

SetMin(S) == CHOOSE x \in S : \A y \in S : x <= y

SetMax(S) == CHOOSE x \in S : \A y \in S : x >= y

Chosen(occs, number) ==
    LET \* chosen: number -> traversal order of the kept occurrence, for the
        \* numbers of nums taken in increasing order.
        RECURSIVE ChooseFrom(_, _, _, _, _)
        ChooseFrom(occs_, number_, nums, last_order, chosen) ==
            LET \* The occurrence kept for a number: the earliest one after the occurrence
                \* kept for the previous number, else the last one.
                Select(orders, last_order_) ==
                    IF \E o \in orders : o > last_order_
                    THEN SetMin({o \in orders : o > last_order_})
                    ELSE SetMax(orders)
            IN  IF nums = {} THEN chosen
                ELSE LET num == SetMin(nums)
                         sel == Select(OrdersOf(occs_, number_, num), last_order)
                     IN  ChooseFrom(occs_, number_, nums \ {num}, sel,
                                    [chosen EXCEPT ![num] = sel])
        nums == {number[occs[o].node] : o \in 1..Len(occs)}
    IN  ChooseFrom(occs, number, nums, 0,
                   [num \in nums \cup ArticleNumbers |-> 0])

\* Duplicates are recognised only among the siblings of the kept node.
IsDiscarded_among_siblings(occs, chosen, number, o) ==
    /\ chosen[number[occs[o].node]] # o
    /\ occs[o].parent = occs[chosen[number[occs[o].node]]].parent

\* Is the occurrence at traversal order o a duplicate to merge and remove?
IsDiscarded(occs, chosen, number, o) == chosen[number[occs[o].node]] # o

\* The shorter text replaces the longer one.
TextWins_shortest(node_text, keep_text) == node_text < keep_text

\* Does the text of a discarded duplicate replace the text of the kept node?
TextWins(node_text, keep_text) == node_text > keep_text

remove_duplicate_articles(type, number, text, children) ==
    LET \* cleanup: the tombstones are removed from every list reached.
        RECURSIVE Cleanup(_, _, _)
        Cleanup(children__, owner, fuel) ==
            LET RECURSIVE CleanupEach(_, _, _, _)
                CleanupEach(children_, nodes, k, fuel_) ==
                    IF k > Len(nodes) \/ fuel_ = 0 THEN children_
                    ELSE CleanupEach(IF children_[nodes[k]] # <<>>
                                     THEN Cleanup(children_, nodes[k], fuel_ - 1)
                                     ELSE children_,
                                     nodes, k + 1, fuel_)
                kept == SelectIn(children__[owner], Range(children__[owner]) \ {NONE})
            IN  CleanupEach([children__ EXCEPT ![owner] = kept], kept, 1, fuel)
        \* The merge loop from position j of the order above.
        RECURSIVE MergeFrom(_, _, _, _, _, _, _)
        MergeFrom(occs, chosen, number_, todo, j, text_, children_) ==
            IF j > Len(todo) THEN [text |-> text_, children |-> children_]
            ELSE LET o    == todo[j]
                     occ  == occs[o]
                     keep == occs[chosen[number_[occ.node]]].node
                 IN  IF ~IsDiscarded(occs, chosen, number_, o)
                     THEN MergeFrom(occs, chosen, number_, todo, j + 1, text_, children_)
                     ELSE LET c1 == [children_ EXCEPT ![keep] = @ \o children_[occ.node]]
                          IN  MergeFrom(occs, chosen, number_, todo, j + 1,
                                IF TextWins(text_[occ.node], text_[keep])
                                THEN [text_ EXCEPT ![keep] = text_[occ.node]]
                                ELSE text_,
                                [c1 EXCEPT ![occ.parent][occ.idx] = NONE])
        \* The discarded occurrences in the order in which the merge loop meets
        \* them: number by number, each in traversal order.
        RECURSIVE OrdersInOrder(_, _, _)
        OrdersInOrder(occs, number_, nums) ==
            IF nums = <<>> THEN <<>>
            ELSE SelectIn([o \in 1..Len(occs) |-> o],
                          OrdersOf(occs, number_, Head(nums)))
                 \o OrdersInOrder(occs, number_, Tail(nums))
        \* The numbers in the order of their first occurrence (the insertion order
        \* of the dictionary occurrences).
        NumbersInOrder(occs, number_) ==
            FirstSeen([o \in 1..Len(occs) |-> number_[occs[o].node]])
        occs   == Occurrences(type, children)
        chosen == Chosen(occs, number)
        todo   == OrdersInOrder(occs, number, NumbersInOrder(occs, number))
        merged == MergeFrom(occs, chosen, number, todo, 1, text, children)
    IN  [text |-> merged.text,
         children |-> Cleanup(merged.children, 0,
                              Cardinality(DOMAIN children))]

DedupIdle == dedup = [pc |-> "idle"]

\* A raw tree: any nesting of articles and section headings.
DedupInit ==
    LET \* The children lists of a parent map.
        RECURSIVE ChildrenOf(_, _, _)
        ChildrenOf(parent, p, k) ==
            IF k > Len(parent) THEN <<>>
            ELSE (IF parent[k] = p THEN <<k>> ELSE <<>>) \o ChildrenOf(parent, p, k + 1)
        IsPreorder(parent) ==
            LET \* The raw trees: parent[k] < k is the parent of node k (0 for a root); the
                \* numbering is the document order, so the parent of k is k - 1 or one of
                \* the ancestors of k - 1.
                RECURSIVE AncestorsOrSelf(_, _)
                AncestorsOrSelf(parent_, k) ==
                    IF k = 0 THEN {0} ELSE {k} \cup AncestorsOrSelf(parent_, parent_[k])
            IN  \A k \in 1..Len(parent) : parent[k] \in AncestorsOrSelf(parent, k - 1)
        RECURSIVE ParentMaps(_)
        ParentMaps(n) ==
            IF n = 0 THEN {<<>>}
            ELSE {Append(pm, q) : pm \in ParentMaps(n - 1), q \in 0..(n - 1)}
        TextLengths    == {1, 2}
    IN  \E n \in 1..MaxTreeNodes, article \in {MADA, AL \o MADA} :
          \E parent \in {pm \in ParentMaps(n) : IsPreorder(pm)},
             type \in SeqsOfLen({article, QISM}, n),
             number \in SeqsOfLen(ArticleNumbers, n),
             text \in SeqsOfLen(TextLengths, n) :
            /\ \A k \in 1..n : type[k] = QISM => (number[k] = 1 /\ text[k] = 1)
            /\ dedup = [pc |-> "raw",
                        type |-> type,
                        number |-> number,
                        text |-> text,
                        children |-> [k \in 0..n |-> ChildrenOf(parent, k, 1)],
                        before |-> [text |-> <<>>, children |-> <<>>]]

FlattenArticles ==
    /\ dedup.pc = "raw"
    /\ dedup' = [dedup EXCEPT
            !.pc = "flattened",
            !.children = flatten_articles(dedup.type, dedup.children)]

RemoveDuplicateArticles ==
    /\ dedup.pc = "flattened"
    /\ LET r == remove_duplicate_articles(dedup.type, dedup.number,
                                          dedup.text, dedup.children)
       IN  dedup' = [dedup EXCEPT
                !.pc = "deduped",
                !.before = [text |-> dedup.text, children |-> dedup.children],
                !.text = r.text,
                !.children = r.children]

DedupNext == FlattenArticles \/ RemoveDuplicateArticles

\* The article occurrences of the tree before and after the removal.
OccsBefore == Occurrences(dedup.type, dedup.before.children)

OccsAfter == Occurrences(dedup.type, dedup.children)

\* The node kept for num among the occurrences before the removal.
KeptNode(num) == OccsBefore[Chosen(OccsBefore, dedup.number)[num]].node

C11_KeptArticlesInDocumentOrder ==
    dedup.pc = "deduped"
        => \A i, j \in 1..Len(OccsAfter) :
              dedup.number[OccsAfter[i].node] < dedup.number[OccsAfter[j].node]
                  => i < j

(***************************************************************************)
(* Gap filling: fill_missing_articles (pipeline/fix_structure.py,          *)
(* pipeline/gpt_helpers.py, gpt.py: the three copies are the same code).   *)
(*                                                                         *)
(* One sibling list; the function treats every children list the same way. *)
(* A "number" field is <<k>> when int(str(number)) is k and <<>> when the  *)
(* conversion raises.                                                      *)
(***************************************************************************)

\* Most nodes of an input sibling list, and the largest article number.
MaxSiblings == 3
MaxNumber   == 7

IsArticleNode(node) == canonical_type(node.type) = MADA

\* The placeholder dictionary inserted for a missing number.
Placeholder(missing) ==
    [type |-> MADA, number |-> <<missing>>, placeholder |-> TRUE]

\* The gap loop stops one step late and repeats the next number.
MissingRun_inclusive(from, to) ==
    [k \in 1..(to - from + 1) |-> Placeholder(from + k - 1)]

\* The placeholders of "missing = from; while missing < to", in order.
MissingRun(from, to) ==
    [k \in 1..(to - from) |-> Placeholder(from + k - 1)]

\* The nodes a sibling list may hold: articles under either spelling with a
\* number or with a "number" that is no integer, and section headings.
SiblingNodes ==
    {[type |-> t, number |-> n, placeholder |-> FALSE] :
        t \in {MADA, AL \o MADA},
        n \in {<<k>> : k \in 1..MaxNumber} \cup {<<>>}}
    \cup {[type |-> QISM, number |-> <<1>>, placeholder |-> FALSE]}

FillIdle == fill = [pc |-> "idle"]

FillInit ==
    \E n \in 0..MaxSiblings :
      \E nodes \in SeqsOfLen(SiblingNodes, n) :
        fill = [pc |-> "raw", input |-> nodes, nodes |-> nodes]

FillMissingArticles ==
    LET fill_missing_articles(nodes) ==
            LET IntOf(node) == node.number[1]
                \* int(str(node.get("number"))): has it a value, and which.
                HasInt(node) == node.number # <<>>
                \* while i < len(nodes) - 1, with the 0-based index i of the code.
                RECURSIVE FillPairs(_, _)
                FillPairs(nodes_, i) ==
                    IF i >= Len(nodes_) - 1 THEN nodes_
                    ELSE LET current == nodes_[i + 1]
                             nxt     == nodes_[i + 2]
                         IN  IF /\ IsArticleNode(current) /\ IsArticleNode(nxt)
                                /\ HasInt(current) /\ HasInt(nxt)
                             THEN LET run == MissingRun(IntOf(current) + 1, IntOf(nxt))
                                  IN  FillPairs(InsertAfter(nodes_, i + 1, run),
                                                i + Len(run) + 1)
                             ELSE FillPairs(nodes_, i + 1)
                \* The block before the loop: a list that starts with an article numbered
                \* above 1 gets the numbers from 1 up to it; i is left on the first node.
                FillLeading(nodes_) ==
                    IF /\ nodes_ # <<>>
                       /\ IsArticleNode(nodes_[1])
                       /\ HasInt(nodes_[1])
                       /\ IntOf(nodes_[1]) > 1
                    THEN [nodes |-> MissingRun(1, IntOf(nodes_[1])) \o nodes_,
                          i |-> IntOf(nodes_[1]) - 1]
                    ELSE [nodes |-> nodes_, i |-> 0]
                lead == FillLeading(nodes)
            IN  FillPairs(lead.nodes, lead.i)
    IN  /\ fill.pc = "raw"
        /\ fill' = [fill EXCEPT !.pc = "filled",
                                !.nodes = fill_missing_articles(fill.nodes)]

FillNext == FillMissingArticles

\* The numbers of a list of nodes, and the positions of its placeholders.
NumbersOf(nodes) == [k \in 1..Len(nodes) |-> nodes[k].number]

PlaceholdersOf(nodes) == {k \in 1..Len(nodes) : nodes[k].placeholder}

\* The list of the claim: three articles numbered 3, 4 and 7.
IsThreeFourSeven(nodes) ==
    /\ NumbersOf(nodes) = <<<<3>>, <<4>>, <<7>>>>
    /\ \A k \in 1..3 : IsArticleNode(nodes[k])

\* Claim C12 as stated: gap filling turns the sibling articles [3, 4, 7]
\* into exactly [3, 4, 5, 6, 7], 5 and 6 being the only nodes inserted.
C12_FillsOnlyInnerGaps ==
    (fill.pc = "filled" /\ IsThreeFourSeven(fill.input))
        => /\ NumbersOf(fill.nodes) = <<<<3>>, <<4>>, <<5>>, <<6>>, <<7>>>>
           /\ PlaceholdersOf(fill.nodes) = {3, 4}

\* Claim C12 as amended: gap filling turns the sibling articles [3, 4, 7]
\* into exactly [1, 2, 3, 4, 5, 6, 7]; 1, 2, 5 and 6 are placeholders and
\* the three input nodes are the other entries, unchanged.
C12_FillsLeadingAndInnerGaps ==
    (fill.pc = "filled" /\ IsThreeFourSeven(fill.input))
        => /\ NumbersOf(fill.nodes)
                = <<<<1>>, <<2>>, <<3>>, <<4>>, <<5>>, <<6>>, <<7>>>>
           /\ PlaceholdersOf(fill.nodes) = {1, 2, 5, 6}
           /\ SelectIn(fill.nodes, SiblingNodes) = fill.input

\* The list [3, 4, 7] was filled.
C12_Witness ==
    /\ fill.pc = "filled"
    /\ IsThreeFourSeven(fill.input)
    /\ Len(fill.nodes) > Len(fill.input)

(***************************************************************************)
(* EntityReconciler, offset recovery: fix_entity_offsets (ner.py).         *)
(*                                                                         *)
(* The document is a sequence of characters and an entity a record of its  *)
(* text and its stated start_char/end_char.  A window is the pair          *)
(* <<start, end>> of a claimed occurrence (0-based, end exclusive).        *)
(***************************************************************************)

\* Longest document and largest number of entities in the model.
MaxDocLen == 5

MaxEntities == 2

\* The search neighbourhood of line 264 (50 characters in the source),
\* scaled to the documents of the model.
SearchRadius == 1

\* The value an unclaimed entity yields; windows are pairs of integers.
NoWindow == <<>>

Abs(n) == IF n < 0 THEN 0 - n ELSE n

\* The loop "idx = s.find(t); while idx != -1: ...; idx = s.find(t, idx + 1)":
\* every 0-based index at which t occurs in s, overlapping ones included.
FindAll(s, t) ==
    {idx \in 0..(Len(s) - Len(t)) : SubSeq(s, idx + 1, idx + Len(t)) = t}

\* Windows of the occurrences of ent_text found in text[from:to].
OccurrencesIn(text, ent_text, from, to) ==
    LET \* Python text[a:b] with a >= 0 and b of either sign.
        PySliceSigned(s, a, b) == PySlice(s, a, IF b < 0 THEN Max(0, Len(s) + b) ELSE b)
    IN  {<<from + idx, from + idx + Len(ent_text)>> :
            idx \in FindAll(PySliceSigned(text, from, to), ent_text)}

IsFree(r, used) ==
               LET \* _overlaps
                   Overlaps(r1, r2) == ~(r1[2] <= r2[1] \/ r1[1] >= r2[2])
               IN  \A k \in 1..Len(used) : ~Overlaps(r, used[k])

\* Order of the stable sort by abs(r[0] - start) of a list built in
\* ascending position.
NearerOrEarlier(r, q, start) ==
    \/ Abs(r[1] - start) < Abs(q[1] - start)
    \/ Abs(r[1] - start) = Abs(q[1] - start) /\ r[1] <= q[1]

\* The unclaimed occurrence farthest from the stated start is taken.
AssignFrom_farthest(occurrences, start, used) ==
    LET free == {r \in occurrences : IsFree(r, used)}
    IN  IF free = {} THEN NoWindow
        ELSE CHOOSE r \in free : \A q \in free : NearerOrEarlier(q, r, start)

\* _assign_from: the first window of the sorted list that overlaps no
\* claimed window, NoWindow when there is none.
AssignFrom(occurrences, start, used) ==
    LET free == {r \in occurrences : IsFree(r, used)}
    IN  IF free = {} THEN NoWindow
        ELSE CHOOSE r \in free : \A q \in free : NearerOrEarlier(r, q, start)

fix_entity_offsets(text, entities) ==
                                  LET RECURSIVE FixFrom(_, _, _, _)
                                      FixFrom(text__, entities_, k, used) ==
                                          LET \* One iteration of the loop of fix_entity_offsets: the window the entity
                                              \* claims, NoWindow when it is skipped or not located.
                                              ClaimedWindow(text_, ent, used_) ==
                                                  LET ent_text == ent.text
                                                      start == ent.start_char
                                                      end == ent.end_char
                                                      search_start == Max(0, start - SearchRadius)
                                                      search_end == Min(Len(text_), start + SearchRadius + Len(ent_text))
                                                      found == AssignFrom(OccurrencesIn(text_, ent_text, search_start, search_end),
                                                                          start, used_)
                                                  IN  IF ent_text = <<>> THEN NoWindow
                                                      ELSE IF start = -1 \/ end = -1 THEN NoWindow
                                                      ELSE IF /\ 0 <= start /\ start < end /\ end <= Len(text_)
                                                              /\ PySlice(text_, start, end) = ent_text
                                                              /\ IsFree(<<start, end>>, used_)
                                                           THEN <<start, end>>
                                                      ELSE IF found # NoWindow THEN found
                                                      ELSE AssignFrom(OccurrencesIn(text_, ent_text, 0, Len(text_)), start, used_)
                                          IN  IF k > Len(entities_) THEN [entities |-> entities_, used |-> used]
                                              ELSE LET win == ClaimedWindow(text__, entities_[k], used)
                                                   IN  IF win = NoWindow THEN FixFrom(text__, entities_, k + 1, used)
                                                       ELSE FixFrom(text__,
                                                                    [entities_ EXCEPT ![k] = [@ EXCEPT !.start_char = win[1],
                                                                                                      !.end_char = win[2]]],
                                                                    k + 1, Append(used, win))
                                  IN  FixFrom(text, entities, 1, <<>>)

SeqsUpTo(S, n) == UNION {[1..m -> S] : m \in 0..n}

OffsIdle == offs = [pc |-> "idle"]

OffsInit ==
    LET RawEntities ==
            LET \* Stated offsets: approximate, possibly outside the document, and the
                \* value -1 that lines 242-246 and 336-338 use for an unknown offset.
                StatedStarts == (0 - (SearchRadius + 2))..MaxDocLen
                EntTexts == {<<"a">>, <<"a", "a">>}
            IN  {[text |-> t, start_char |-> s, end_char |-> s + Len(t)] :
                    t \in EntTexts, s \in StatedStarts}
        DocChars == {"a", "b"}
    IN  \E text \in SeqsUpTo(DocChars, MaxDocLen) \ {<<>>},
           entities \in SeqsUpTo(RawEntities, MaxEntities) :
            offs = [pc |-> "raw", text |-> text, input |-> entities,
                    entities |-> entities, used |-> <<>>]

FixEntityOffsets ==
    /\ offs.pc = "raw"
    /\ LET r == fix_entity_offsets(offs.text, offs.entities)
       IN  offs' = [offs EXCEPT !.pc = "fixed", !.entities = r.entities,
                                !.used = r.used]

OffsNext == FixEntityOffsets

\* Occurrences of the k-th entity's text that overlap no window claimed by
\* an earlier entity.
FreeOccurrences(k) ==
    LET \* Windows claimed by the entities before the k-th one.
        UsedBefore(k_) == fix_entity_offsets(offs.text, SubSeq(offs.input, 1, k_ - 1)).used
    IN  {r \in OccurrencesIn(offs.text, offs.input[k].text, 0, Len(offs.text)) :
            IsFree(r, UsedBefore(k))}

\* The k-th entity ends on an occurrence of its text, the unclaimed one
\* nearest to its stated start.
OnNearestFree(k) ==
    LET ent == offs.entities[k]
        win == <<ent.start_char, ent.end_char>>
        start == offs.input[k].start_char
    IN  /\ win \in FreeOccurrences(k)
        /\ PySlice(offs.text, win[1], win[2]) = ent.text
        /\ \A q \in FreeOccurrences(k) : Abs(win[1] - start) <= Abs(q[1] - start)

\* C13 as stated: every entity with integer offsets whose text has an
\* unclaimed occurrence ends on the unclaimed occurrence nearest to its
\* stated start.
C13_EveryLocatableEntityRelocated ==
    offs.pc = "fixed"
        => \A k \in 1..Len(offs.entities) :
              FreeOccurrences(k) # {} => OnNearestFree(k)

\* C13 amended: every entity whose stated offsets are both different from
\* -1 and whose text has an occurrence overlapping no window claimed by an
\* earlier entity ends with text[start:end] equal to its text, on the
\* unclaimed occurrence nearest to its stated start.
C13_KnownOffsetsRelocatedToNearest ==
    offs.pc = "fixed"
        => \A k \in 1..Len(offs.entities) :
              /\ offs.input[k].start_char # -1
              /\ offs.input[k].end_char # -1
              /\ FreeOccurrences(k) # {}
              => OnNearestFree(k)

\* A second entity is moved off its stated offsets onto one of two unclaimed
\* occurrences, the first entity having claimed a window.
C13_Witness ==
    /\ offs.pc = "fixed"
    /\ Len(offs.entities) = 2
    /\ Len(offs.used) = 2
    /\ offs.input[2].start_char # -1
    /\ offs.input[2].end_char # -1
    /\ offs.entities[2].start_char # offs.input[2].start_char
    /\ Cardinality(FreeOccurrences(2)) = 2
    /\ Cardinality(OccurrencesIn(offs.text, offs.input[2].text, 0, Len(offs.text))) = 3
    /\ OnNearestFree(2)

\* C14: every entity that remains after fix_entity_offsets has
\* text[start:end] equal to its text, the others having been dropped.
C14_RemainingEntitiesMatchText ==
    offs.pc = "fixed"
        => \A k \in 1..Len(offs.entities) :
              LET ent == offs.entities[k]
              IN  /\ 0 <= ent.start_char
                  /\ ent.start_char <= ent.end_char
                  /\ ent.end_char <= Len(offs.text)
                  /\ PySlice(offs.text, ent.start_char, ent.end_char) = ent.text

(***************************************************************************)
(* EntityReconciler: postprocess_result and its passes (ner.py).           *)
(*                                                                         *)
(* Strings are transliterated as above; in addition "I" is the alef with   *)
(* hamza below and "y" the alef maqsura, "i7" is the Arabic-Indic digit    *)
(* seven, "," the Latin and "c" the Arabic comma, and "x" a letter of no   *)
(* known word.  An identifier is the sequence of its characters, an        *)
(* upper-case word of a type name counting as one character.               *)
(***************************************************************************)

\* Largest number of entities returned by the generation service.
MaxRaw == 2

DigitChars == <<"0", "1", "2", "3", "4", "5", "6", "7", "8", "9">>

ArabicDigitChars == <<"i0", "i1", "i2", "i3", "i4", "i5", "i6", "i7", "i8", "i9">>

WesternDigits == Range(DigitChars)

\* The character class [0-9٠-٩]
AnyDigits == WesternDigits \cup Range(ArabicDigitChars)

\* The character class \s
Spaces == {" "}

\* str.translate(_DIGIT_TRANS)
Translate(s) ==
    [k \in 1..Len(s) |->
        IF s[k] \in Range(ArabicDigitChars)
        THEN DigitChars[CHOOSE i \in 1..10 : ArabicDigitChars[i] = s[k]]
        ELSE s[k]]

DigitVal(c) == (CHOOSE i \in 1..10 : DigitChars[i] = c) - 1

\* int(s) of a string of western digits
RECURSIVE ParseInt(_)
ParseInt(s) ==
    IF s = <<>> THEN 0
    ELSE 10 * ParseInt(SubSeq(s, 1, Len(s) - 1)) + DigitVal(s[Len(s)])

\* str(n) of a natural number
RECURSIVE Str(_)
Str(n) ==
    IF n < 10 THEN <<DigitChars[n + 1]>>
    ELSE Str(n \div 10) \o <<DigitChars[(n % 10) + 1]>>

\* Index of the first character from p on that is not in S.
RECURSIVE SpanEnd(_, _, _)
SpanEnd(s, p, S) ==
    IF p <= Len(s) /\ s[p] \in S THEN SpanEnd(s, p + 1, S) ELSE p

\* Index of the first character from p on that is in S.
RECURSIVE SpanStart(_, _, _)
SpanStart(s, p, S) ==
    IF p <= Len(s) /\ s[p] \notin S THEN SpanStart(s, p + 1, S) ELSE p

StartsWith(s, p, w) ==
    /\ p + Len(w) - 1 <= Len(s)
    /\ SubSeq(s, p, p + Len(w) - 1) = w

\* re.findall of a character class with "+": the maximal runs, with the
\* index of their first character.
RECURSIVE Runs(_, _, _)
Runs(s, p, S) ==
    LET from == SpanStart(s, p, S)
        to == SpanEnd(s, from, S)
    IN  IF from > Len(s) THEN <<>>
        ELSE <<[at |-> from, run |-> SubSeq(s, from, to - 1)]>> \o Runs(s, to, S)

NumberSeparators == {".", "/"}

\* End of the match of (?:[./]+[^\d]*\d+)* from p on.
RECURSIVE DottedEnd(_, _)
DottedEnd(s, p) ==
    LET digit == SpanStart(s, p, WesternDigits)
    IN  IF p <= Len(s) /\ s[p] \in NumberSeparators /\ digit <= Len(s)
        THEN DottedEnd(s, SpanEnd(s, digit, WesternDigits))
        ELSE p

\* _canonical_number; the empty string stands for None.
canonical_number(text) ==
    LET s == Translate(text)
        first == SpanStart(s, 1, WesternDigits)
        group0 == SubSeq(s, first, DottedEnd(s, SpanEnd(s, first, WesternDigits)) - 1)
        digits == Runs(group0, 1, WesternDigits)
        seps == Runs(group0, 1, NumberSeparators)
        Joined[k \in 0..Len(digits)] ==
            IF k = 0 THEN <<>>
            ELSE IF k = 1 THEN digits[1].run
            ELSE IF k - 1 <= Len(seps)
                 THEN Joined[k - 1] \o <<seps[k - 1].run[1]>> \o digits[k].run
                 ELSE Joined[k - 1]
    IN  IF first > Len(s) THEN <<>> ELSE Joined[Len(digits)]

\* The word that opens a range, and the three accepted spellings of the
\* word that joins its bounds.
MIN == <<"M", "N">>

ILY == <<"I", "L", "y">>

LY == <<"L", "y">>

ALY == <<"A", "L", "y">>

\* The heading word of an article with the definite article, its dual and
\* its plural.
ALFASL == AL \o FASL

ALFASLAYN == AL \o FASL \o <<"Y", "N">>

ALFUSUL == <<"A", "L", "F", "S", "W", "L">>

NoMatch == [ok |-> FALSE]

\* The pattern of lines 324-326 matched at index p: the record of the
\* match (end is the index after it), or NoMatch.
RangeMatchAt(s, p) ==
    LET p1 == p + Len(MIN)
        p2 == SpanEnd(s, p1, Spaces)
        head1 == SpanEnd(s, p2 + Len(ALFASL), Spaces)
        p3 == IF StartsWith(s, p2, ALFASL) /\ head1 > p2 + Len(ALFASL) THEN head1 ELSE p2
        p4 == SpanEnd(s, p3, AnyDigits)
        p5 == SpanEnd(s, p4, Spaces)
        p6 == IF StartsWith(s, p5, ILY) THEN p5 + Len(ILY)
              ELSE IF StartsWith(s, p5, LY) THEN p5 + Len(LY)
              ELSE IF StartsWith(s, p5, ALY) THEN p5 + Len(ALY)
              ELSE 0
        p7 == SpanEnd(s, p6, Spaces)
        head2 == SpanEnd(s, p7 + Len(ALFASL), Spaces)
        p8 == IF StartsWith(s, p7, ALFASL) /\ head2 > p7 + Len(ALFASL) THEN head2 ELSE p7
        p9 == SpanEnd(s, p8, AnyDigits)
    IN  IF /\ StartsWith(s, p, MIN) /\ p2 > p1 /\ p4 > p3 /\ p5 > p4
           /\ p6 > 0 /\ p7 > p6 /\ p9 > p8
        THEN [ok |-> TRUE, start |-> p, end |-> p9,
              group1 |-> SubSeq(s, p3, p4 - 1), group2 |-> SubSeq(s, p8, p9 - 1)]
        ELSE NoMatch

\* pattern.finditer(text) from index p on
RECURSIVE RangeMatches(_, _)
RangeMatches(s, p) ==
    IF p > Len(s) THEN <<>>
    ELSE LET m == RangeMatchAt(s, p)
         IN  IF m.ok THEN <<m>> \o RangeMatches(s, m.end)
             ELSE RangeMatches(s, p + 1)

ARTICLE == "ARTICLE"

INTERNAL_REF == "INTERNAL_REF"

LAW == "LAW"

DATE == "DATE"

EmptyMap == [k \in {} |-> 0]

Get(map, key, default) == IF key \in DOMAIN map THEN map[key] ELSE default

\* Spelling of a type name inside an identifier.
TypeChars(typ) == IF typ = INTERNAL_REF THEN <<"INTERNAL", "_", "REF">> ELSE <<typ>>

\* f"{typ}_{canonical}", the key of the counters of next_id.
IdBase(typ, canonical) == TypeChars(typ) \o <<"_">> \o canonical

\* f"{base}_{n}"
IdOf(base, n) == base \o <<"_">> \o Str(n)

\* The loop of lines 308-314.  The pattern of line 309 is written with a
\* doubled backslash in a raw string: after the last "_" it wants a
\* backslash followed by the letter d, which no identifier made of type
\* names, "_", "-" and digits contains, so no counter is initialised.
RangeCounters(entities) == EmptyMap

\* The loop that fills art_map (lines 316-323, 409-414): the first article
\* entity of each canonical number.
ArticleMap(entities) ==
    LET Canon(e) == canonical_number(IF e.normalized # <<>> THEN e.normalized ELSE e.text)
        Map[k \in 0..Len(entities)] ==
            IF k = 0 THEN EmptyMap
            ELSE LET e == entities[k]
                 IN  IF e.type = ARTICLE /\ Canon(e) # <<>> /\ Canon(e) \notin DOMAIN Map[k - 1]
                     THEN (Canon(e) :> e.id) @@ Map[k - 1]
                     ELSE Map[k - 1]
    IN  Map[Len(entities)]

\* An entity; the empty string stands for a key that the entity lacks.
Entity(id, type, text, start, end, normalized) ==
    [id |-> id, type |-> type, text |-> text, start_char |-> start,
     end_char |-> end, normalized |-> normalized, global_id |-> <<>>]

RefersTo(ref_id, art_id) ==
    [relation_id |-> <<"REL", "_", "refers_to", "_">> \o ref_id \o <<"_">> \o art_id,
     type |-> "refers_to", source_id |-> ref_id, target_id |-> art_id]

\* next_id: the identifier issued and the counters after the call.
NextId(seq, typ, canonical) ==
    IdOf(IdBase(typ, canonical), Get(seq, IdBase(typ, canonical), 0) + 1)

Counted(seq, typ, canonical) ==
    (IdBase(typ, canonical) :> Get(seq, IdBase(typ, canonical), 0) + 1) @@ seq

\* num_positions (lines 349-356): the window of the last number of the
\* match whose value is num, <<-1, -1>> when no number of the match has it.
NumPosition(s, m, num) ==
    LET group0 == SubSeq(s, m.start, m.end - 1)
        found == Runs(group0, 1, AnyDigits)
        hits == {k \in 1..Len(found) : Str(ParseInt(canonical_number(found[k].run))) = num}
        last == found[CHOOSE k \in hits : \A h \in hits : h <= k]
    IN  IF hits = {} THEN <<-1, -1>>
        ELSE <<(m.start - 1) + (last.at - 1), (m.start - 1) + (last.at - 1) + Len(last.run)>>

\* A new article entity is created for every number of the reference.
ReferArticle_never_reusing(st, ref_id, num_str, window) ==
    LET art_id == NextId(st.seq, ARTICLE, num_str)
    IN  [entities |-> Append(st.entities,
                             Entity(art_id, ARTICLE, num_str, window[1], window[2], <<>>)),
         relations |-> Append(st.relations, RefersTo(ref_id, art_id)),
         seq |-> Counted(st.seq, ARTICLE, num_str),
         art_map |-> (num_str :> art_id) @@ st.art_map]

\* The body of the loop over the numbers of a reference (lines 358-383,
\* 447-468): the article of number num_str is looked up or created, and a
\* relation from the reference to it is added.
ReferArticle(st, ref_id, num_str, window) ==
    LET known == Get(st.art_map, num_str, <<>>)
        art_id == IF known # <<>> THEN known ELSE NextId(st.seq, ARTICLE, num_str)
    IN  [entities |-> IF known # <<>> THEN st.entities
                      ELSE Append(st.entities,
                                  Entity(art_id, ARTICLE, num_str, window[1], window[2], <<>>)),
         relations |-> Append(st.relations, RefersTo(ref_id, art_id)),
         seq |-> IF known # <<>> THEN st.seq ELSE Counted(st.seq, ARTICLE, num_str),
         art_map |-> IF known # <<>> THEN st.art_map ELSE (num_str :> art_id) @@ st.art_map]

\* for num in range(a, b + 1)
RECURSIVE ExpandNumbers(_, _, _, _, _, _)
ExpandNumbers(st, s, m, ref_id, num, b) ==
    IF num > b THEN st
    ELSE ExpandNumbers(ReferArticle(st, ref_id, Str(num), NumPosition(s, m, Str(num))),
                       s, m, ref_id, num + 1, b)

\* The body of the loop over the matches (lines 328-383).
ExpandRange(st, s, m) ==
    LET start == canonical_number(m.group1)
        end == canonical_number(m.group2)
        a == Min(ParseInt(start), ParseInt(end))
        b == Max(ParseInt(start), ParseInt(end))
        canonical == Str(a) \o <<"-">> \o Str(b)
        ref_id == NextId(st.seq, INTERNAL_REF, canonical)
        ref == Entity(ref_id, INTERNAL_REF, SubSeq(s, m.start, m.end - 1),
                      m.start - 1, m.end - 1, ALFASL \o <<" ">> \o canonical)
    IN  IF start = <<>> \/ end = <<>> THEN st
        ELSE ExpandNumbers([st EXCEPT !.entities = Append(@, ref),
                                      !.seq = Counted(@, INTERNAL_REF, canonical)],
                           s, m, ref_id, a, b)

RECURSIVE ExpandRanges(_, _, _, _)
ExpandRanges(st, s, matches, k) ==
    IF k > Len(matches) THEN st
    ELSE ExpandRanges(ExpandRange(st, s, matches[k]), s, matches, k + 1)

expand_article_ranges(text, entities, relations) ==
    ExpandRanges([entities |-> entities, relations |-> relations,
                  seq |-> RangeCounters(entities), art_map |-> ArticleMap(entities)],
                 text, RangeMatches(text, 1), 1)

\* End of the match of (?:\s*sep\s*digits)* from p on, p being the index
\* after a number: a separator that no number follows is left out.
RECURSIVE ListEnd(_, _)
ListEnd(s, p) ==
    LET \* Separators of the numbers of a list: the two commas and the conjunction.
        ListSeparators == {",", "c", "W"}
        sep == SpanEnd(s, p, Spaces)
        num == SpanEnd(s, sep + 1, Spaces)
        end == SpanEnd(s, num, AnyDigits)
    IN  IF sep <= Len(s) /\ s[sep] \in ListSeparators /\ end > num
        THEN ListEnd(s, end)
        ELSE p

\* The pattern of lines 416-418 matched at index p.
ListMatchAt(s, p) ==
    LET p1 == IF StartsWith(s, p, ALFASLAYN) THEN p + Len(ALFASLAYN)
              ELSE IF StartsWith(s, p, ALFUSUL) THEN p + Len(ALFUSUL)
              ELSE 0
        p2 == SpanEnd(s, p1, Spaces)
        p3 == IF p2 <= Len(s) /\ s[p2] = ":" THEN p2 + 1 ELSE p2
        p4 == SpanEnd(s, p3, Spaces)
        p5 == SpanEnd(s, p4, AnyDigits)
    IN  IF p1 > 0 /\ p5 > p4
        THEN [ok |-> TRUE, start |-> p, end |-> ListEnd(s, p5), start1 |-> p4]
        ELSE NoMatch

RECURSIVE ListMatches(_, _)
ListMatches(s, p) ==
    IF p > Len(s) THEN <<>>
    ELSE LET m == ListMatchAt(s, p)
         IN  IF m.ok THEN <<m>> \o ListMatches(s, m.end)
             ELSE ListMatches(s, p + 1)

\* Index of the last "_" of an identifier, 0 when it has none.
LastUnderscore(id) ==
    IF \E j \in 1..Len(id) : id[j] = "_"
    THEN CHOOSE j \in 1..Len(id) : id[j] = "_" /\ \A k \in (j + 1)..Len(id) : id[k] # "_"
    ELSE 0

\* The loop of lines 399-405: an identifier of the form
\* ([A-Z_]+_[^_]+)_(\d+) raises the counter of its base to its number.
ListCounters(entities) ==
    LET UpperWords == {"ARTICLE", "INTERNAL", "REF", "LAW", "DATE"}
        Number(id) == SubSeq(id, LastUnderscore(id) + 1, Len(id))
        BaseOf(id) == SubSeq(id, 1, LastUnderscore(id) - 1)
        Matches(id) ==
            /\ LastUnderscore(id) > 0
            /\ Number(id) # <<>>
            /\ \A k \in 1..Len(Number(id)) : Number(id)[k] \in WesternDigits
            /\ LastUnderscore(BaseOf(id)) > 1
            /\ LastUnderscore(BaseOf(id)) < Len(BaseOf(id))
            /\ \A k \in 1..(LastUnderscore(BaseOf(id)) - 1) : BaseOf(id)[k] \in UpperWords \cup {"_"}
        Counters[k \in 0..Len(entities)] ==
            IF k = 0 THEN EmptyMap
            ELSE LET id == entities[k].id
                 IN  IF Matches(id) /\ ParseInt(Number(id)) > Get(Counters[k - 1], BaseOf(id), 0)
                     THEN (BaseOf(id) :> ParseInt(Number(id))) @@ Counters[k - 1]
                     ELSE Counters[k - 1]
    IN  Counters[Len(entities)]

\* "_".join(nums)
RECURSIVE JoinNumbers(_)
JoinNumbers(nums) ==
    IF Len(nums) = 0 THEN <<>>
    ELSE IF Len(nums) = 1 THEN nums[1]
    ELSE nums[1] \o <<"_">> \o JoinNumbers(Tail(nums))

\* for num, s_pos, e_pos in nums_with_pos
RECURSIVE ExpandListed(_, _, _, _, _)
ExpandListed(st, ref_id, found, offset, k) ==
    IF k > Len(found) THEN st
    ELSE ExpandListed(
            ReferArticle(st, ref_id, Str(ParseInt(canonical_number(found[k].run))),
                         <<offset + found[k].at - 1,
                           offset + found[k].at - 1 + Len(found[k].run)>>),
            ref_id, found, offset, k + 1)

\* The body of the loop over the matches (lines 420-468).
ExpandList(st, s, m) ==
    LET found == Runs(SubSeq(s, m.start1, m.end - 1), 1, AnyDigits)
        joined == JoinNumbers([k \in 1..Len(found) |->
                                  Str(ParseInt(canonical_number(found[k].run)))])
        ref_id == NextId(st.seq, INTERNAL_REF, joined)
        ref == Entity(ref_id, INTERNAL_REF, SubSeq(s, m.start, m.end - 1),
                      m.start - 1, m.end - 1, ALFASL \o <<" ">> \o joined)
    IN  ExpandListed([st EXCEPT !.entities = Append(@, ref),
                                !.seq = Counted(@, INTERNAL_REF, joined)],
                     ref_id, found, m.start1 - 1, 1)

RECURSIVE ExpandLists(_, _, _, _)
ExpandLists(st, s, matches, k) ==
    IF k > Len(matches) THEN st
    ELSE ExpandLists(ExpandList(st, s, matches[k]), s, matches, k + 1)

expand_article_lists(text, entities, relations) ==
    ExpandLists([entities |-> entities, relations |-> relations,
                 seq |-> ListCounters(entities), art_map |-> ArticleMap(entities)],
                text, ListMatches(text, 1), 1)

\* Is the window of entity e inside one of the windows of the entities of
\* the given type?
InsideSpanOf(entities, typ, e) ==
    \E r \in Range(entities) :
        r.type = typ /\ r.start_char <= e.start_char /\ e.end_char <= r.end_char

\* remove_articles_inside_dates: the entities that stay.  The relations are
\* not touched.
remove_articles_inside_dates(entities) ==
    SelectSeq(entities, LAMBDA e : ~(e.type = ARTICLE /\ InsideSpanOf(entities, DATE, e)))

\* Does _remove_overlapping_articles remove entity e?
IsOverlappingArticle(entities, e) ==
    /\ e.type = ARTICLE
    /\ \/ InsideSpanOf(entities, INTERNAL_REF, e)
       \/ /\ Len(Runs(Translate(e.text), 1, AnyDigits)) > 1
          /\ \E r \in Range(entities) :
                /\ r.type = INTERNAL_REF
                /\ ~(e.end_char <= r.start_char \/ e.start_char >= r.end_char)

\* _remove_overlapping_articles: the entities that stay, and the relations
\* neither end of which is the identifier of a removed entity.
remove_overlapping_articles(entities, relations) ==
    LET removed_ids == {e.id : e \in {x \in Range(entities) : IsOverlappingArticle(entities, x)}}
    IN  [entities |-> SelectSeq(entities, LAMBDA e : ~IsOverlappingArticle(entities, e)),
         relations |-> SelectSeq(relations,
                          LAMBDA r : r.source_id \notin removed_ids
                                     /\ r.target_id \notin removed_ids)]

\* Python "word in text"
Contains(text, word) == FindAll(text, word) # {}

\* The word that names a law.
ALQANUN == <<"A", "L", "Q", "A", "N", "W", "N">>

DAHIR == <<"Z", "h", "Y", "R">>

\* normalize_entities on the entity types of the model; parsed is what
\* _parse_date returns for the text of a DATE entity.
normalize_entities(entities, parsed) ==
    LET \* The normalized value of an ARTICLE entity (lines 197-219).
        NormalizedArticle(text) ==
            LET ALQISM == AL \o QISM
                ALBAB == AL \o BAB
                FUSUL == <<"F", "S", "W", "L">>
                ALMADATAYN == <<"A", "L", "M", "A", "D", "T", "Y", "N">>
                MAWAD == <<"M", "W", "A", "D">>
                \* Heading words that normalize_entities looks for in the text of a
                \* structural citation (lines 199-206), and the legal types of lines
                \* 183-194.
                ALMADA == AL \o MADA
                nums == Runs(Translate(text), 1, AnyDigits)
                heading ==
                    IF \/ Contains(text, MADA) \/ Contains(text, MAWAD)
                       \/ Contains(text, ALMADATAYN)
                    THEN ALMADA
                    ELSE IF Contains(text, FASL) \/ Contains(text, FUSUL) THEN ALFASL
                    ELSE IF Contains(text, BAB) THEN ALBAB
                    ELSE IF Contains(text, QISM) THEN ALQISM
                    ELSE ALFASL
                num == canonical_number(text)
            IN  IF Len(nums) > 1
                THEN heading \o <<" ">> \o
                     JoinNumbers([k \in 1..Len(nums) |-> Str(ParseInt(nums[k].run))])
                ELSE IF num = <<>> THEN <<>>
                ELSE num \o <<" ">> \o heading
        \* The normalized value of a LAW entity (lines 179-196); empty for None.
        NormalizedLaw(text) ==
            LET ALDAHIR_ALSHARIF == AL \o DAHIR \o <<" ">> \o <<"A", "L", "C", "R", "Y", "F">>
                QARAR == <<"Q", "R", "A", "R">>
                MARSUM == <<"M", "R", "s", "W", "M">>
                DUSTUR == <<"D", "s", "T", "W", "R">>
                ALQANUN_TANDHIMI == ALQANUN \o <<" ">> \o <<"A", "L", "T", "N", "Z", "Y", "M", "Y">>
                num == canonical_number(text)
            IN  IF num = <<>> THEN <<>>
                ELSE IF Contains(text, DAHIR) THEN num \o <<" ">> \o ALDAHIR_ALSHARIF
                ELSE IF Contains(text, ALQANUN_TANDHIMI) THEN num \o <<" ">> \o ALQANUN_TANDHIMI
                ELSE IF Contains(text, ALQANUN) THEN num \o <<" ">> \o ALQANUN
                ELSE IF Contains(text, DUSTUR) THEN num \o <<" ">> \o AL \o DUSTUR
                ELSE IF Contains(text, MARSUM) THEN num \o <<" ">> \o AL \o MARSUM
                ELSE IF Contains(text, QARAR) THEN num \o <<" ">> \o AL \o QARAR
                ELSE num
    IN  [k \in 1..Len(entities) |->
            LET e == entities[k]
                norm == IF e.type = DATE THEN parsed
                        ELSE IF e.type = LAW THEN NormalizedLaw(e.text)
                        ELSE IF e.type = ARTICLE THEN NormalizedArticle(e.text)
                        ELSE e.text
            IN  IF e.normalized # <<>> /\ e.type \notin {LAW, ARTICLE} THEN e
                ELSE IF norm = <<>> THEN e
                ELSE [e EXCEPT !.normalized = norm]]

\* The integer n as an identifier, distinct from the string of its digits.
NumericId(n) == <<"int">> \o Str(n)

\* No endpoint is rewritten.
NewIdOf_unmapped(entities, old) == old

\* id_map.get(old, old): the rank of the last entity with that identifier,
\* the identifier itself when no entity has it.
NewIdOf(entities, old) ==
    LET ranks == {k \in 1..Len(entities) : entities[k].id = old}
    IN  IF ranks = {} THEN old ELSE NumericId(SetMax(ranks))

assign_numeric_ids(entities, relations) ==
    [entities |-> [k \in 1..Len(entities) |-> [entities[k] EXCEPT !.id = NumericId(k)]],
     relations |-> [j \in 1..Len(relations) |->
                       [relations[j] EXCEPT !.relation_id = NumericId(j),
                                            !.source_id = NewIdOf(entities, @),
                                            !.target_id = NewIdOf(entities, @)]]]

NerIdle == ner = [pc |-> "idle"]

NerInit ==
    LET \* A law cited by its number.
        LawMention == ALQANUN \o <<" ", "9", ".", "1">>
        \* Relations of the reply: none, or one from the first entity to the second.
        RawRelations(entities) ==
            {<<>>} \cup
            (IF Len(entities) < 2 THEN {}
             ELSE {<<[relation_id |-> <<"r">>, type |-> "refers_to",
                      source_id |-> entities[1].id, target_id |-> entities[2].id]>>})
        \* The k-th entity of the reply; its identifier is its type and its rank.
        RawEntity(k, mention) ==
            Entity(<<mention[1], "_">> \o Str(k), mention[1], mention[2],
                   mention[3], IF mention[3] = -1 THEN -1 ELSE mention[3] + Len(mention[2]), <<>>)
        \* Entities as the generation service returns them: a type, a text and
        \* approximate offsets (-1 when it gives none).
        RawMentions ==
            {<<ARTICLE, ALFASL \o <<" ", "7">>, 0>>,
             <<ARTICLE, <<"7">>, 3>>,
             <<ARTICLE, <<"8">>, -1>>,
             <<DATE, <<"7", " ">> \o ILY \o <<" ", "9">>, 3>>,
             <<LAW, LawMention, 11>>}
        Documents ==
            LET \* Lists of articles: two numbers, three numbers after a colon, and a
                \* number followed by a conjunction that no number follows.
                ListMentions ==
                    {ALFASLAYN \o <<" ", "7", " ", "W", "9">>,
                     ALFUSUL \o <<":", " ", "7", "c", " ", "8", " ", "W", " ", "9">>,
                     ALFUSUL \o <<" ", "7", " ", "W">>}
                \* Texts that the pattern of a range does not match.
                PlainMentions ==
                    {MIN \o <<" ", "7", " ", "x", " ", "9">>,
                     MIN \o <<"7", " ">> \o ILY \o <<" ", "9">>,
                     ALFASL \o <<" ", "7">>,
                     MIN \o <<" ">> \o ALFASL \o <<"7", " ">> \o ILY \o <<" ", "9">>}
                RangeMentions ==
                    LET \* Documents of the model: a mention, alone or inside other words.
                        NumeralPairs ==
                            {<<<<"7">>, <<"9">>>>, <<<<"7">>, <<"7">>>>, <<<<"9">>, <<"7">>>>,
                             <<<<"i7">>, <<"8">>>>, <<<<"0", "7">>, <<"8">>>>, <<<<"9">>, <<"1", "0">>>>}
                    IN  {MIN \o <<" ">> \o n[1] \o <<" ">> \o ILY \o <<" ">> \o n[2] : n \in NumeralPairs}
                        \cup {MIN \o <<" ", "7", " ">> \o to \o <<" ", "9">> : to \in {LY, ALY}}
                        \cup {MIN \o <<" ">> \o h[1] \o <<"7">> \o <<" ", " ">> \o ILY \o <<" ">> \o h[2] \o <<"9">> :
                                h \in {<<ALFASL \o <<" ">>, <<>>>>, <<<<>>, ALFASL \o <<" ">>>>,
                                       <<ALFASL \o <<" ">>, ALFASL \o <<" ">>>>}}
            IN  {pre \o mention \o post :
                    pre \in {<<>>, <<"x", " ">>},
                    mention \in RangeMentions \cup PlainMentions \cup ListMentions,
                    post \in {<<>>, <<" ">> \o LawMention,
                              <<" ">> \o ALFASLAYN \o <<" ", "8", " ", "W", " ", "9">>}}
    IN  \E text \in Documents, mentions \in SeqsUpTo(RawMentions, MaxRaw) :
            LET entities == [k \in 1..Len(mentions) |-> RawEntity(k, mentions[k])]
            IN  \E relations \in RawRelations(entities) :
                    ner = [pc |-> "raw", text |-> text,
                           input |-> [entities |-> entities, relations |-> relations],
                           old |-> [entities |-> entities, relations |-> relations],
                           entities |-> entities, relations |-> relations]

ExpandArticleRanges ==
    /\ ner.pc = "raw"
    /\ LET st == expand_article_ranges(ner.text, ner.entities, ner.relations)
       IN  ner' = [ner EXCEPT !.pc = "ranges", !.entities = st.entities,
                              !.relations = st.relations]

ExpandArticleLists ==
    /\ ner.pc = "ranges"
    /\ LET st == expand_article_lists(ner.text, ner.entities, ner.relations)
       IN  ner' = [ner EXCEPT !.pc = "lists", !.entities = st.entities,
                              !.relations = st.relations]

FixOffsets ==
    /\ ner.pc = "lists"
    /\ ner' = [ner EXCEPT !.pc = "offsets",
                          !.entities = fix_entity_offsets(ner.text, ner.entities).entities]

RemoveArticlesInsideDates ==
    /\ ner.pc = "offsets"
    /\ ner' = [ner EXCEPT !.pc = "dates",
                          !.entities = remove_articles_inside_dates(ner.entities)]

RemoveOverlappingArticles ==
    /\ ner.pc = "dates"
    /\ LET st == remove_overlapping_articles(ner.entities, ner.relations)
       IN  ner' = [ner EXCEPT !.pc = "overlaps", !.entities = st.entities,
                              !.relations = st.relations]

NormalizeEntities ==
    LET \* The date parser is an optional dependency (lines 20-23): what it makes
        \* of a text is either nothing or an ISO date.
        ParsedDates == {<<>>, <<"2", "0", "1", "1", "-", "0", "9", "-", "0", "7">>}
    IN  /\ ner.pc = "overlaps"
        /\ \E parsed \in ParsedDates :
              ner' = [ner EXCEPT !.pc = "normalized",
                                 !.entities = normalize_entities(ner.entities, parsed)]

AssignNumericIds ==
    /\ ner.pc = "normalized"
    /\ LET st == assign_numeric_ids(ner.entities, ner.relations)
       IN  ner' = [ner EXCEPT !.pc = "numbered", !.entities = st.entities,
                              !.relations = st.relations,
                              !.old = [entities |-> ner.entities,
                                       relations |-> ner.relations]]

NerNext ==
    \/ ExpandArticleRanges
    \/ ExpandArticleLists
    \/ FixOffsets
    \/ RemoveArticlesInsideDates
    \/ RemoveOverlappingArticles
    \/ NormalizeEntities
    \/ AssignNumericIds

\* The matches of the range pattern in the document, and the bounds of the
\* first one in increasing order.
Mentions == RangeMatches(ner.text, 1)

RangeLo ==
    Min(ParseInt(canonical_number(Mentions[1].group1)),
        ParseInt(canonical_number(Mentions[1].group2)))

RangeHi ==
    Max(ParseInt(canonical_number(Mentions[1].group1)),
        ParseInt(canonical_number(Mentions[1].group2)))

\* Indices of the article entities of canonical number n.
ArticlesNumbered(entities, n) ==
    {k \in 1..Len(entities) :
        /\ entities[k].type = ARTICLE
        /\ canonical_number(IF entities[k].normalized # <<>> THEN entities[k].normalized
                            ELSE entities[k].text) = Str(n)}

C26_RangeTargetsSurviveCleanup ==
    (ner.pc = "numbered" /\ Len(Mentions) >= 1)
        => \E r \in 1..Len(ner.entities) :
              /\ ner.entities[r].type = INTERNAL_REF
              /\ ner.entities[r].start_char = Mentions[1].start - 1
              /\ ner.entities[r].end_char = Mentions[1].end - 1
              /\ \A n \in RangeLo..RangeHi :
                    \E a \in ArticlesNumbered(ner.entities, n) :
                        Cardinality({j \in 1..Len(ner.relations) :
                            /\ ner.relations[j].type = "refers_to"
                            /\ ner.relations[j].source_id = ner.entities[r].id
                            /\ ner.relations[j].target_id = ner.entities[a].id}) = 1

\* C17: after postprocess_result every relation joins two entities of the
\* final entity list.
C17_NoDanglingRelation ==
    ner.pc = "numbered"
        => \A j \in 1..Len(ner.relations) :
              /\ \E k \in 1..Len(ner.entities) :
                    ner.relations[j].source_id = ner.entities[k].id
              /\ \E k \in 1..Len(ner.entities) :
                    ner.relations[j].target_id = ner.entities[k].id

\* C18: after postprocess_result a LAW entity of number n has the global
\* id LAW_n, an article of number a governed by that law LAW_n_ART_a, and
\* an article that no instrument governs ART_a.
C18_GlobalIdsAssigned ==
    LET \* The instruments that govern the k-th entity: the LAW entities that a
        \* relation joins to it.
        GoverningLaws(k) ==
            {g \in 1..Len(ner.entities) :
                /\ ner.entities[g].type = LAW
                /\ \E j \in 1..Len(ner.relations) :
                      \/ /\ ner.relations[j].source_id = ner.entities[k].id
                         /\ ner.relations[j].target_id = ner.entities[g].id
                      \/ /\ ner.relations[j].source_id = ner.entities[g].id
                         /\ ner.relations[j].target_id = ner.entities[k].id}
    IN  ner.pc = "numbered"
            => \A k \in 1..Len(ner.entities) :
                  LET e == ner.entities[k]
                      num == canonical_number(e.text)
                  IN  /\ (e.type = LAW /\ num # <<>>)
                            => e.global_id = <<LAW, "_">> \o num
                      /\ (e.type = ARTICLE /\ num # <<>> /\ GoverningLaws(k) = {})
                            => e.global_id = <<"ART", "_">> \o num
                      /\ (e.type = ARTICLE /\ num # <<>>)
                            => \A g \in GoverningLaws(k) :
                                  e.global_id = <<LAW, "_">> \o canonical_number(ner.entities[g].text)
                                                \o <<"_", "ART", "_">> \o num

(***************************************************************************)
(* post_process_data (pipeline/post_process.py): the hierarchy is rebuilt  *)
(* from the flat list of headings and articles and cleaned up by the       *)
(* passes of pipeline/hierarchy_builder.py, in the order of lines 19-28.   *)
(*                                                                         *)
(* The entries of the flat list are the nodes 1..n of an arena, as in the  *)
(* DuplicateResolver: children[0] is the root list.  A number n >= 0       *)
(* stands for the digit string str(n), NotDigits for a string that is not  *)
(* made of digits only; a text is a run of one letter, given by its length.*)
(***************************************************************************)

\* Most entries of a flat list of the model.
MaxFlat == 4

\* A number field such as "foo", for which str.isdigit() is false.
NotDigits == 0 - 1

isdigit(num) == num >= 0

ALLOWED_TYPES == {QISM, BAB, FASL, JUZ, FAR, MADA}

\* seq[-1]
Last(seq) == seq[Len(seq)]

\* while stack and stack[-1].get("type") not in kinds: stack.pop()
RECURSIVE PopUntil(_, _, _)
PopUntil(type, stack, kinds) ==
    IF stack # <<>> /\ type[Last(stack)] \notin kinds
    THEN PopUntil(type, SubSeq(stack, 1, Len(stack) - 1), kinds)
    ELSE stack

\* if stack: stack[-1]["children"].append(entry); with an empty stack the
\* entry goes to the root list if to_root, and to no list otherwise.
AttachToTop(children, stack, to_root, k) ==
    IF stack # <<>>
    THEN [children EXCEPT ![Last(stack)] = Append(@, k)]
    ELSE IF to_root THEN [children EXCEPT ![0] = Append(@, k)]
    ELSE children

\* The loop of postprocess_structure from entry k on; type holds the
\* canonical types.  A heading met with an empty stack is pushed but put
\* in no list; an entry of any other type goes to the root and is never
\* pushed.
RECURSIVE NestFrom(_, _, _, _)
NestFrom(type, k, stack, children) ==
    IF k > Len(type) THEN children
    ELSE LET level == type[k]
         IN  IF level = QISM
             THEN NestFrom(type, k + 1, <<k>>,
                           [children EXCEPT ![0] = Append(@, k)])
             ELSE IF level = BAB
             THEN LET st == PopUntil(type, stack, {QISM})
                  IN  NestFrom(type, k + 1, Append(st, k),
                               AttachToTop(children, st, FALSE, k))
             ELSE IF level = FASL
             THEN LET st == PopUntil(type, stack, {BAB, QISM})
                  IN  NestFrom(type, k + 1, Append(st, k),
                               AttachToTop(children, st, FALSE, k))
             ELSE IF level \in {MADA, AL \o MADA}
             THEN LET st == PopUntil(type, stack, {FASL, BAB, QISM})
                  IN  NestFrom(type, k + 1, st,
                               AttachToTop(children, st, TRUE, k))
             ELSE NestFrom(type, k + 1, stack,
                           [children EXCEPT ![0] = Append(@, k)])

\* postprocess_structure on a flat list whose entries have no children.
postprocess_structure(type) ==
    LET level == [k \in 1..Len(type) |-> hb_canonical_type(type[k])]
    IN  [type |-> level,
         children |-> NestFrom(level, 1, <<>>,
                               [k \in 0..Len(type) |-> <<>>])]

\* The number without its stray leading digit (lines 80-84).
normalize_number(num) ==
    IF isdigit(num) /\ Len(Str(num)) > 2 /\ Head(Str(num)) \in {"8", "9"}
    THEN ParseInt(Tail(Str(num)))
    ELSE num

\* normalize_numbers: every node of the tree is visited.
normalize_numbers(number, children) ==
    [k \in 1..Len(number) |->
        IF k \in Descendants(children, 0) THEN normalize_number(number[k])
        ELSE number[k]]

\* seen[key]: the first node kept in result with the type and number of
\* node, NONE if there is none.
Seen(type, number, result, node) ==
    LET same == {j \in 1..Len(result) :
                    /\ type[result[j]] = type[node]
                    /\ number[result[j]] = number[node]}
    IN  IF same = {} THEN NONE ELSE result[SetMin(same)]

\* The text of existing after the merge of node (lines 119-124): texts of
\* equal length are equal, and no text ends with a line feed.
MergedText(existing_text, node_text) ==
    IF existing_text = 0 /\ node_text > 0 THEN node_text
    ELSE IF existing_text > 0 /\ node_text > 0 /\ existing_text # node_text
    THEN existing_text + 1 + node_text
    ELSE existing_text

\* merge_duplicates on the list children[owner]: the first loop from
\* position i, then the recursion into the nodes of result.
RECURSIVE MergeSiblings(_, _, _, _, _, _, _)
RECURSIVE MergeEach(_, _, _, _, _, _)
MergeSiblings(type, number, text, children, owner, i, result) ==
    IF i > Len(children[owner])
    THEN MergeEach(type, number, text,
                   [children EXCEPT ![owner] = result], result, 1)
    ELSE LET node     == children[owner][i]
             existing == Seen(type, number, result, node)
         IN  IF type[node] = MADA \/ existing = NONE
             THEN MergeSiblings(type, number, text, children, owner, i + 1,
                                Append(result, node))
             ELSE MergeSiblings(type, number,
                    [text EXCEPT ![existing] = MergedText(@, text[node])],
                    [children EXCEPT ![existing] = @ \o children[node]],
                    owner, i + 1, result)

MergeEach(type, number, text, children, result, j) ==
    IF j > Len(result) THEN [text |-> text, children |-> children]
    ELSE IF children[result[j]] = <<>>
    THEN MergeEach(type, number, text, children, result, j + 1)
    ELSE LET m == MergeSiblings(type, number, text, children, result[j], 1,
                                <<>>)
         IN  MergeEach(type, number, m.text, m.children, result, j + 1)

merge_duplicates(type, number, text, children) ==
    MergeSiblings(type, number, text, children, 0, 1, <<>>)

\* children.pop(i), for the position i counted from 1
PopAt(seq, i) == SubSeq(seq, 1, i - 1) \o SubSeq(seq, i + 1, Len(seq))

\* The node that receives a stray article: the last heading met, or the
\* chapter that closes the list of a section or part (lines 300-304).
StrayTarget(type, children, last_struct) ==
    LET sub == children[last_struct]
    IN  IF /\ type[last_struct] \in {QISM, BAB}
           /\ sub # <<>>
           /\ type[Last(sub)] = FASL
        THEN Last(sub)
        ELSE last_struct

\* attach_stray_articles on the list children[owner], from position i, with
\* the last heading met in that list (NONE before the first one).
RECURSIVE AttachFrom(_, _, _, _, _)
AttachFrom(type, children, owner, i, last_struct) ==
    IF i > Len(children[owner]) THEN children
    ELSE LET node == children[owner][i]
         IN  IF type[node] \in {QISM, BAB, FASL}
             THEN IF /\ type[node] = FASL
                     /\ last_struct # NONE
                     /\ type[last_struct] = BAB
                  THEN AttachFrom(type,
                         AttachFrom(type,
                            [children EXCEPT
                               ![last_struct] = Append(@, node),
                               ![owner] = PopAt(@, i)],
                            node, 1, NONE),
                         owner, i, last_struct)
                  ELSE AttachFrom(type,
                         AttachFrom(type, children, node, 1, NONE),
                         owner, i + 1, node)
             ELSE IF type[node] = MADA /\ last_struct # NONE
             THEN AttachFrom(type,
                    [children EXCEPT
                       ![StrayTarget(type, children, last_struct)]
                            = Append(@, node),
                       ![owner] = PopAt(@, i)],
                    owner, i, last_struct)
             ELSE IF children[node] # <<>>
             THEN AttachFrom(type, AttachFrom(type, children, node, 1, NONE),
                             owner, i + 1, last_struct)
             ELSE AttachFrom(type, children, owner, i + 1, last_struct)

attach_stray_articles(type, children) ==
    AttachFrom(type, children, 0, 1, NONE)

\* Does prune_structure keep the node (lines 329-340)?
Kept(type, number, node, at_root) ==
    /\ type[node] \in ALLOWED_TYPES
    /\ ~(at_root /\ type[node] = MADA)
    /\ isdigit(number[node])

\* prune_structure on the list children[owner]; the lists of the kept
\* nodes are pruned from position j of the kept ones on.
RECURSIVE PruneList(_, _, _, _, _)
RECURSIVE PruneEach(_, _, _, _, _)
PruneList(type, number, children, owner, at_root) ==
    LET keep   == {node \in Range(children[owner]) :
                      Kept(type, number, node, at_root)}
        pruned == SelectIn(children[owner], keep)
    IN  PruneEach(type, number, [children EXCEPT ![owner] = pruned],
                  pruned, 1)

PruneEach(type, number, children, pruned, j) ==
    IF j > Len(pruned) THEN children
    ELSE PruneEach(type, number,
                   IF children[pruned[j]] # <<>>
                   THEN PruneList(type, number, children, pruned[j], FALSE)
                   ELSE children,
                   pruned, j + 1)

prune_structure(type, number, children) ==
    PruneList(type, number, children, 0, TRUE)

\* post_process_data on the flat list of the entries (type, number, text):
\* the structure after each pass.
post_process_data(type, number, text) ==
    LET hier0 == postprocess_structure(type)
        flat  == flatten_articles(hier0.type, hier0.children)
        nums  == normalize_numbers(number, flat)
        mrg   == merge_duplicates(hier0.type, nums, text, flat)
        dd1   == remove_duplicate_articles(hier0.type, nums, mrg.text,
                                           mrg.children)
        att   == attach_stray_articles(hier0.type, dd1.children)
        dd2   == remove_duplicate_articles(hier0.type, nums, dd1.text, att)
    IN  [type |-> hier0.type,
         number |-> nums,
         text |-> dd2.text,
         nested |-> hier0.children,
         children |-> prune_structure(hier0.type, nums, dd2.children)]

PostIdle == clean = [pc |-> "idle"]

PostInit ==
    LET \* The entries of the flat lists of the model.
        FlatEntries ==
            LET \* A type outside TYPE_MAP and ALLOWED_TYPES (a note).
                MULAHAZA == <<"M", "L", "A", "Hh", "Z", "H">>
            IN  {[type |-> AL \o QISM, number |-> 1, text |-> 1],
                 [type |-> AL \o QISM, number |-> 1, text |-> 2],
                 [type |-> AL \o BAB, number |-> 1, text |-> 0],
                 [type |-> FASL, number |-> NotDigits, text |-> 1],
                 [type |-> AL \o FAR, number |-> 1, text |-> 0],
                 [type |-> FAR, number |-> 2, text |-> 0],
                 [type |-> AL \o MADA, number |-> 1, text |-> 1],
                 [type |-> MADA, number |-> 812, text |-> 1],
                 [type |-> MULAHAZA, number |-> 1, text |-> 1]}
    IN  \E flat \in SeqsUpTo(FlatEntries, MaxFlat) :
            /\ flat # <<>>
            /\ clean = [pc |-> "flat",
                       type |-> [k \in 1..Len(flat) |-> flat[k].type],
                       number |-> [k \in 1..Len(flat) |-> flat[k].number],
                       text |-> [k \in 1..Len(flat) |-> flat[k].text],
                       nested |-> <<>>,
                       children |-> <<>>,
                       flat |-> flat]

PostProcessData ==
    /\ clean.pc = "flat"
    /\ LET r == post_process_data(clean.type, clean.number, clean.text)
       IN  clean' = [clean EXCEPT
                !.pc = "done",
                !.type = r.type,
                !.number = r.number,
                !.text = r.text,
                !.nested = r.nested,
                !.children = r.children]

PostNext == PostProcessData

\* Claim C19: post_process_data nests the branches of a flat list: every
\* branch that lies in a part (its last heading before it is a part) is a
\* child of that part, the branches of a part keep their document order,
\* and every branch holds exactly the articles that followed it.
C19_BranchesNestedUnderChapter ==
    LET \* A flat list as the extraction emits it for a sound document: it opens
        \* with a section, every type is a known kind, every number is numeric and
        \* no heading or article occurs twice.
        SoundFlatList ==
            /\ clean.type[1] = QISM
            /\ \A k \in 1..Len(clean.type) :
                  /\ clean.type[k] \in ALLOWED_TYPES
                  /\ isdigit(clean.number[k])
                  /\ \A j \in 1..(k - 1) :
                        <<clean.type[j], clean.number[j]>>
                            # <<clean.type[k], clean.number[k]>>
        \* The articles that follow the entry k in the flat list, up to the next
        \* entry that is not an article.
        FollowingArticles(k) ==
            SelectIn([a \in 1..Len(clean.type) |-> a],
                     {a \in (k + 1)..Len(clean.type) :
                         \A j \in (k + 1)..a : clean.type[j] = MADA})
        \* The heading that opens the part of the flat list in which entry k lies:
        \* the last section, part or chapter before k (NONE if there is none).
        EnclosingHeading(k) ==
            LET before == {j \in 1..(k - 1) : clean.type[j] \in {QISM, BAB, FASL}}
            IN  IF before = {} THEN NONE ELSE SetMax(before)
    IN  (clean.pc = "done" /\ SoundFlatList)
            => \A k \in 1..Len(clean.type) :
                  (clean.type[k] = FAR /\ EnclosingHeading(k) # NONE
                        /\ clean.type[EnclosingHeading(k)] = BAB)
                     => /\ k \in Range(clean.children[EnclosingHeading(k)])
                        /\ clean.children[k] = FollowingArticles(k)
                        /\ \A i, j \in 1..Len(clean.children[EnclosingHeading(k)]) :
                              i < j => clean.children[EnclosingHeading(k)][i]
                                        < clean.children[EnclosingHeading(k)][j]

\* Claim C20: after post_process_data no node of the structure has an
\* unknown type or a non-numeric number, and when the document has a
\* section the root list holds neither an article nor a childless branch.
C20_OnlySectionsWithNestedContent ==
    LET \* The root list holds no branch without children.
        NoChildlessRootBranch ==
            \A k \in Range(clean.children[0]) :
                ~(clean.type[k] = FAR /\ clean.children[k] = <<>>)
        \* The root list holds no article.
        NoRootArticle ==
            \A k \in Range(clean.children[0]) : clean.type[k] # MADA
        \* The final structure has no node of unknown type and no node whose
        \* number is not numeric.
        OnlyKnownNumericNodes ==
            LET \* The nodes of the final structure.
                FinalNodes == Descendants(clean.children, 0)
            IN  \A k \in FinalNodes :
                    clean.type[k] \in ALLOWED_TYPES /\ isdigit(clean.number[k])
    IN  clean.pc = "done"
            => /\ OnlyKnownNumericNodes
               /\ (\E k \in 1..Len(clean.type) : clean.type[k] = QISM)
                     => (NoRootArticle /\ NoChildlessRootBranch)

\* Claim C28: postprocess_structure loses no entry: every entry of the flat
\* list is, exactly once, in the root list or in the children list of an
\* entry that the returned root list reaches.
C28_NoEntryLost ==
    LET InRoot == Descendants(clean.nested, 0)
        \* The places of the returned structure: a list and a position in it.
        Places(k) == {<<l, m>> \in ({0} \cup InRoot) \X (1..MaxFlat) :
                         m <= Len(clean.nested[l]) /\ clean.nested[l][m] = k}
    IN  clean.pc = "done"
            => \A k \in 1..Len(clean.type) : Cardinality(Places(k)) = 1

(***************************************************************************)
(* drop_empty_non_article_nodes (pipeline/fix_structure.py and             *)
(* pipeline/gpt_helpers.py, the same code).                                *)
(*                                                                         *)
(* The input is a tree as json.load returns it: the nodes 1..n of an       *)
(* arena, children[0] the root list, every node in exactly one list.  A    *)
(* text is given by its length.                                            *)
(***************************************************************************)

\* Most nodes of a tree given to drop_empty_non_article_nodes.
MaxPruneNodes == 3

\* nodes.remove(node)
Remove(seq, x) == SelectSeq(seq, LAMBDA y : y # x)

\* drop_empty_non_article_nodes(nodes) on the list of `owner': `todo' is
\* what is left of the copy list(nodes) the loop runs over.
RECURSIVE drop_empty_non_article_nodes(_, _, _, _)
drop_empty_non_article_nodes(node, children, owner, todo) ==
    IF todo = <<>> THEN children
    ELSE LET k            == Head(todo)
             typ          == canonical_type(node[k].type)
             has_text     == node[k].text > 0
             has_children == children[k] # <<>>
         IN  IF ~has_text /\ ~has_children /\ typ # MADA /\ ~node[k].placeholder
             THEN drop_empty_non_article_nodes(
                      node, [children EXCEPT ![owner] = Remove(@, k)],
                      owner, Tail(todo))
             ELSE IF has_children
             THEN drop_empty_non_article_nodes(
                      node,
                      drop_empty_non_article_nodes(node, children, k, children[k]),
                      owner, Tail(todo))
             ELSE drop_empty_non_article_nodes(node, children, owner, Tail(todo))

PruneIdle == prune = [pc |-> "idle"]

\* A tree of one to MaxPruneNodes nodes: the parent of node i is the root
\* list or a node before it.
PruneInit ==
    \E n \in 1..MaxPruneNodes :
        \E parent \in [1..n -> 0..(n - 1)],
           node \in [1..n -> [type : {AL \o MADA, BAB}, text : 0..1,
                              placeholder : BOOLEAN]] :
            /\ \A i \in 1..n : parent[i] < i
            /\ prune = [pc |-> "loaded",
                        node |-> node,
                        children |->
                            [k \in 0..n |->
                                SelectSeq([i \in 1..n |-> i],
                                          LAMBDA i : parent[i] = k)],
                        tree |-> <<>>]

\* drop_empty_non_article_nodes(tree)
DropEmptyNonArticleNodes ==
    /\ prune.pc = "loaded"
    /\ prune' = [prune EXCEPT
            !.pc = "dropped",
            !.tree = drop_empty_non_article_nodes(
                         prune.node, prune.children, 0, prune.children[0])]

PruneNext == DropEmptyNonArticleNodes

\* Claim C23: after drop_empty_non_article_nodes the tree holds, at no
\* depth, a node that is not a placeholder, not an article, has no text and
\* has no children; this includes a node whose only children were removed
\* by the pass.
C23_NoEmptyStructuralNode ==
    LET RECURSIVE InTree(_)
        InTree(S) ==
            LET S2 == S \cup UNION {Range(prune.tree[k]) : k \in S}
            IN  IF S2 = S THEN S ELSE InTree(S2)
    IN  prune.pc = "dropped"
            => \A k \in InTree({0}) \ {0} :
                  ~(/\ ~prune.node[k].placeholder
                    /\ canonical_type(prune.node[k].type) # MADA
                    /\ prune.node[k].text = 0
                    /\ prune.tree[k] = <<>>)

(***************************************************************************)
(* finalize_structure (pipeline/fix_structure.py and                       *)
(* pipeline/gpt_helpers.py).                                               *)
(*                                                                         *)
(* The input is a tree, as above.  A text is a string over three           *)
(* characters: "x" an Arabic letter, "e" a Latin letter and " "; hastext   *)
(* tells whether the node has a "text" key.  Numbers are strings, on which *)
(* str() changes nothing.                                                  *)
(***************************************************************************)

\* Most nodes of a tree given to finalize_structure.
MaxFinalNodes == 3

\* finalize_structure(tree) on the list `todo': the nodes after the call.
\* No node of a tree is met twice, so the `seen' set of fix_structure.py
\* skips none.
RECURSIVE finalize_structure(_, _, _, _)
finalize_structure(impl, node, children, todo) ==
    LET \* clean_text on the characters of the model: the Latin letters go
        \* (re.sub(r"[A-Za-z]+", "", text)) and the result is stripped.
        clean_text(text) == strip(SelectSeq(text, LAMBDA c : c # "e"))
        \* The body of the loop, up to the recursive call.
        Finalized(nd) ==
            LET n1 == [nd EXCEPT !.placeholder = FALSE,
                                 !.type = canonical_type(@)]
                n2 == clean_number(impl, n1)
            IN  IF impl = FIX_STRUCTURE
                THEN IF n2.type \notin ARTICLE_TYPES
                     THEN [n2 EXCEPT !.text = <<>>, !.hastext = TRUE]
                     ELSE [n2 EXCEPT !.text = clean_text(@), !.hastext = TRUE]
                ELSE IF n2.hastext
                     THEN IF clean_text(n2.text) # <<>>
                          THEN [n2 EXCEPT !.text = clean_text(@)]
                          ELSE [n2 EXCEPT !.text = <<>>, !.hastext = FALSE]
                     ELSE n2
    IN  IF todo = <<>> THEN node
        ELSE LET k     == Head(todo)
                 node1 == [node EXCEPT ![k] = Finalized(@)]
                 node2 == IF children[k] # <<>>
                          THEN finalize_structure(impl, node1, children, children[k])
                          ELSE node1
             IN  finalize_structure(impl, node2, children, Tail(todo))

FinalIdle == final = [pc |-> "idle"]

\* A tree of one to MaxFinalNodes nodes taken from a few nodes of every
\* kind: headings with and without text, articles, a node of unknown type.
FinalInit ==
    LET Raw(type, number, text, hastext, placeholder) ==
            [type |-> type, number |-> number, text |-> text,
             hastext |-> hastext, placeholder |-> placeholder]
        RawNodes ==
            {Raw(AL \o QISM, AWAL, <<"x">>, TRUE, FALSE),
             Raw(BAB, <<"1">>, <<>>, FALSE, TRUE),
             Raw(BAB, <<"1">>, <<"e">>, TRUE, FALSE),
             Raw(FAR, <<"1">>, <<"x", "e">>, TRUE, FALSE),
             Raw(AL \o MADA, <<"i2">>, <<" ", "x">>, TRUE, FALSE),
             Raw(MADA, <<"1">>, <<>>, TRUE, TRUE),
             Raw(TA, AWAL, <<"x">>, TRUE, FALSE)}
    IN  \E impl \in {FIX_STRUCTURE, GPT_HELPERS}, n \in 1..MaxFinalNodes :
            \E parent \in [1..n -> 0..(n - 1)], node \in [1..n -> RawNodes] :
                /\ \A i \in 1..n : parent[i] < i
                /\ final = [pc |-> "loaded",
                            impl |-> impl,
                            raw |-> node,
                            children |->
                                [k \in 0..n |->
                                    SelectSeq([i \in 1..n |-> i],
                                              LAMBDA i : parent[i] = k)],
                            node |-> node]

\* finalize_structure(tree)
FinalizeStructure ==
    /\ final.pc = "loaded"
    /\ final' = [final EXCEPT
            !.pc = "finalized",
            !.node = finalize_structure(final.impl, final.raw, final.children,
                                        final.children[0])]

FinalNext == FinalizeStructure

\* Claim C24: after finalize_structure only article nodes carry body text:
\* every node of a non-leaf kind (qism, juz, bab, fasl, far') has an empty
\* text.
C24_OnlyArticlesCarryText ==
    final.pc = "finalized"
        => \A k \in DOMAIN final.node :
              final.node[k].type \in {QISM, JUZ, BAB, FASL, FAR}
                  => final.node[k].text = <<>>

(***************************************************************************)
(* break_cycles (pipeline/fix_structure.py and pipeline/gpt_helpers.py).   *)
(*                                                                         *)
(* The input is a graph of Python objects.  A node object is a number from *)
(* 1; a list object is a number from 1, list 1 being the list given to the *)
(* function.  kids[l] is the content of list l, clist[n] the list held     *)
(* under the "children" key of node n (an empty list stands for a missing  *)
(* key too: node.get("children") is false for both), and orig[n] the input *)
(* node that n is, or is a copy of.  id() of an object is its number.      *)
(***************************************************************************)

\* Most node objects and most list entries of an input graph.
MaxCycNodes == 2
MaxEdges    == 5

\* The list without its i-th element: list.pop(i - 1).
RemoveAt(seq, i) == SubSeq(seq, 1, i - 1) \o SubSeq(seq, i + 1, Len(seq))

\* The node objects that a chain of children lists joins to the entries of
\* list l.
RECURSIVE Reach(_, _, _)
Reach(kids, clist, S) ==
    LET S2 == S \cup UNION {Range(kids[clist[n]]) : n \in S}
    IN  IF S2 = S THEN S ELSE Reach(kids, clist, S2)

\* for i, node in enumerate(list(nodes)): the loop over the snapshot snap of
\* list l, from its i-th entry.  st holds the objects, the two sets of ids
\* and whether an exception was raised.
RECURSIVE break_cycles(_, _, _, _, _)
break_cycles(impl, st, l, snap, i) ==
    LET node == snap[i]
        \* list.pop(i) and nodes[i] = ... raise IndexError past the end.
        Raise == [st EXCEPT !.raised = TRUE]
        \* dict(node): a new node object holding the same children list.
        Shallow ==
            [st EXCEPT !.clist = Append(@, st.clist[node]),
                       !.orig  = Append(@, st.orig[node])]
        \* copy.deepcopy(node): a new object for every node and every list
        \* that node reaches, joined as the objects they copy are.
        Deep ==
            LET R  == Reach(st.kids, st.clist, {node})
                LR == {st.clist[n] : n \in R}
                rs == CHOOSE s \in [1..Cardinality(R) -> R] :
                          \A a, b \in DOMAIN s : a < b => s[a] < s[b]
                ls == CHOOSE s \in [1..Cardinality(LR) -> LR] :
                          \A a, b \in DOMAIN s : a < b => s[a] < s[b]
                NewNode(n) == Len(st.clist) + (CHOOSE j \in DOMAIN rs : rs[j] = n)
                NewList(m) == Len(st.kids) + (CHOOSE j \in DOMAIN ls : ls[j] = m)
            IN  [st EXCEPT
                    !.kids  = @ \o [j \in DOMAIN ls |->
                                       [m \in DOMAIN st.kids[ls[j]] |->
                                           NewNode(st.kids[ls[j]][m])]],
                    !.clist = @ \o [j \in DOMAIN rs |-> NewList(st.clist[rs[j]])],
                    !.orig  = @ \o [j \in DOMAIN rs |-> st.orig[rs[j]]]]
        Copied == IF impl = FIX_STRUCTURE THEN Shallow ELSE Deep
        \* The number of the object that copies node itself.
        copy == IF impl = FIX_STRUCTURE THEN Len(st.clist) + 1
                ELSE Len(st.clist)
                     + Cardinality({n \in Reach(st.kids, st.clist, {node}) : n <= node})
        \* The node to visit and the objects after the replacement of a node
        \* already seen.
        nid == IF node \in st.seen THEN copy ELSE node
        st1 == IF node \in st.seen
               THEN [Copied EXCEPT !.kids[l] = [@ EXCEPT ![i] = copy]]
               ELSE st
        st2 == [st1 EXCEPT !.seen = @ \cup {nid}, !.active = @ \cup {nid}]
        st3 == IF st2.kids[st2.clist[nid]] # <<>>
               THEN break_cycles(impl, st2, st2.clist[nid],
                                 st2.kids[st2.clist[nid]], 1)
               ELSE st2
    IN  IF st.raised \/ i > Len(snap) THEN st
        ELSE IF node \in st.active
        THEN IF i > Len(st.kids[l]) THEN Raise
             ELSE break_cycles(impl, [st EXCEPT !.kids[l] = RemoveAt(@, i)],
                               l, snap, i + 1)
        ELSE IF node \in st.seen /\ i > Len(st.kids[l]) THEN Raise
        ELSE break_cycles(impl, [st3 EXCEPT !.active = @ \ {nid}], l, snap, i + 1)

CycIdle == cyc = [pc |-> "idle"]

\* A graph of one to MaxCycNodes node objects whose lists hold at most
\* MaxEdges entries in all: the k-th entry is target[k], in the list given
\* to the function (owner 0) or in the children list of node owner[k].
CycInit ==
    \E impl \in {FIX_STRUCTURE, GPT_HELPERS}, n \in 1..MaxCycNodes, e \in 0..MaxEdges :
        \E owner \in [1..e -> 0..n], target \in [1..e -> 1..n] :
            /\ \A a, b \in 1..e : a < b => owner[a] <= owner[b]
            /\ LET kids == [l \in 1..(n + 1) |->
                               LET at == SelectSeq([k \in 1..e |-> k],
                                                   LAMBDA k : owner[k] = l - 1)
                               IN  [m \in DOMAIN at |-> target[at[m]]]]
               IN  cyc = [pc |-> "loaded", impl |-> impl, kids |-> kids,
                          out |-> [kids |-> kids,
                                   clist |-> [k \in 1..n |-> k + 1],
                                   orig |-> [k \in 1..n |-> k],
                                   active |-> {}, seen |-> {}, raised |-> FALSE]]

\* break_cycles(tree)
BreakCycles ==
    /\ cyc.pc = "loaded"
    /\ cyc' = [cyc EXCEPT
            !.pc = "done",
            !.out = break_cycles(cyc.impl, cyc.out, 1, cyc.out.kids[1], 1)]

CycNext == BreakCycles

\* Claim C27: on every input graph break_cycles returns without raising;
\* afterwards no node object that the tree holds is its own ancestor; and
\* an input node that the input tree holds once and that is on no cycle is
\* still in the list that held it.
C27_BreakCyclesLeavesATree ==
    LET n      == Len(cyc.kids) - 1
        Own(k) == k + 1
        InTree == Reach(cyc.kids, [k \in 1..n |-> Own(k)], Range(cyc.kids[1]))
        Lists  == {1} \cup {Own(k) : k \in InTree}
        Places(x) == {<<l, m>> \in Lists \X (1..MaxEdges) :
                          m <= Len(cyc.kids[l]) /\ cyc.kids[l][m] = x}
        OnCycle(x) ==
            x \in Reach(cyc.kids, [k \in 1..n |-> Own(k)], Range(cyc.kids[Own(x)]))
        Held == Reach(cyc.out.kids, cyc.out.clist, Range(cyc.out.kids[1]))
    IN  cyc.pc = "done"
            => /\ ~cyc.out.raised
               /\ \A x \in Held :
                     x \notin Reach(cyc.out.kids, cyc.out.clist,
                                    Range(cyc.out.kids[cyc.out.clist[x]]))
               /\ \A x \in InTree :
                     (Cardinality(Places(x)) = 1 /\ ~OnCycle(x))
                         => \A p \in Places(x) : x \in Range(cyc.out.kids[p[1]])

(***************************************************************************)
(* Entity markers: text_with_markers and parse_marked_text (ner.py), used  *)
(* by save_file and load_file of annotation_editor.py.                     *)
(*                                                                         *)
(* A text is a sequence of characters.  "dq", "sq" and "bs" stand for the  *)
(* double quote, the single quote and the backslash; " " is the only white *)
(* space.  Positions are counted from 0, as in Python.                     *)
(***************************************************************************)

\* Most pieces of a text and most entities of a list of the model.
MaxPieces == 3
MaxSpans  == 2

ENT_OPEN  == <<"[", "[", "E", "N", "T">>
ENT_CLOSE == <<"[", "[", "/", "E", "N", "T", "]", "]">>

\* text_with_markers(text, entities)
text_with_markers(text, entities) ==
    LET \* sorted(entities, key=start_char): a stable sort.
        Rank(k) == Cardinality({j \in DOMAIN entities :
                        \/ entities[j].start_char < entities[k].start_char
                        \/ /\ entities[j].start_char = entities[k].start_char
                           /\ j <= k})
        sorted == [r \in DOMAIN entities |->
                      entities[CHOOSE k \in DOMAIN entities : Rank(k) = r]]
        \* str(norm).replace('"', '\\"')
        RECURSIVE Esc(_)
        Esc(s) == IF s = <<>> THEN <<>>
                  ELSE (IF Head(s) = "dq" THEN <<"bs", "dq">> ELSE <<Head(s)>>)
                       \o Esc(Tail(s))
        attr_str(ent) ==
            <<"i", "d", "=">> \o ent.id \o <<" ", "t", "y", "p", "e", "=">> \o ent.type
            \o (IF ent.normalized # <<>>
                THEN <<" ", "n", "o", "r", "m", "=", "dq">> \o Esc(ent.normalized) \o <<"dq">>
                ELSE <<>>)
        RECURSIVE Mark(_, _, _)
        Mark(k, last, parts) ==
            IF k > Len(sorted) THEN parts \o PyFrom(text, last)
            ELSE LET ent   == sorted[k]
                     start == ent.start_char
                     end   == ent.end_char
                 IN  IF start < last \/ start < 0 \/ end <= start \/ end > Len(text)
                     THEN Mark(k + 1, last, parts)
                     ELSE Mark(k + 1, end,
                               parts \o PySlice(text, last, start)
                               \o ENT_OPEN \o <<" ">> \o attr_str(ent) \o <<"]", "]">>
                               \o PySlice(text, start, end) \o ENT_CLOSE)
    IN  Mark(1, 0, <<>>)

\* parse_marked_text(marked)
parse_marked_text(marked) ==
    LET \* None
        NoneVal == <<"None">>
        \* The characters that \w matches, among those of the model.
        WordChars == {"i", "d", "t", "y", "p", "e", "n", "o", "r", "m", "a", "x",
                      "A", "E", "N", "T", "1", "2"}
        \* The first position from p on where s holds a character of S; Len(s)
        \* if there is none.
        Next_(s, p, S) ==
            LET at == {i \in p..(Len(s) - 1) : s[i + 1] \in S}
            IN  IF at = {} THEN Len(s) ELSE SetMin(at)
        Chars(s) == Range(s)
        \* \[\[ENT([^\]]*)\]\] at position i of marked: the run of characters
        \* other than "]" must be followed by two of them.
        Bracket(i) == Next_(marked, i + Len(ENT_OPEN), {"]"})
        OpensAt(i) ==
            /\ PySlice(marked, i, i + Len(ENT_OPEN)) = ENT_OPEN
            /\ PySlice(marked, Bracket(i), Bracket(i) + 2) = <<"]", "]">>
        \* (\w+)=('([^']*)'|"([^"]*)"|\S+) at position i of txt.
        KeyEnd(txt, i) == Next_(txt, i, Chars(txt) \ WordChars)
        Quoted(txt, v, q) ==
            /\ PySlice(txt, v, v + 1) = <<q>>
            /\ Next_(txt, v + 1, {q}) < Len(txt)
        ValueEnd(txt, v) ==
            IF Quoted(txt, v, "sq") THEN Next_(txt, v + 1, {"sq"}) + 1
            ELSE IF Quoted(txt, v, "dq") THEN Next_(txt, v + 1, {"dq"}) + 1
            ELSE Next_(txt, v, {" "})
        AttrAt(txt, i) ==
            /\ txt[i + 1] \in WordChars
            /\ PySlice(txt, KeyEnd(txt, i), KeyEnd(txt, i) + 1) = <<"=">>
            /\ ValueEnd(txt, KeyEnd(txt, i) + 1) > KeyEnd(txt, i) + 1
        \* am.group(3) or am.group(4) or am.group(2)
        Value(txt, v) ==
            LET inner == PySlice(txt, v + 1, ValueEnd(txt, v) - 1)
            IN  IF (Quoted(txt, v, "sq") \/ Quoted(txt, v, "dq")) /\ inner # <<>>
                THEN inner
                ELSE PySlice(txt, v, ValueEnd(txt, v))
        \* for am in re.finditer(...): attr[key] = val
        RECURSIVE Attrs(_, _, _)
        Attrs(txt, p, attr) ==
            LET at == {i \in p..(Len(txt) - 1) : AttrAt(txt, i)}
            IN  IF at = {} THEN attr
                ELSE LET i   == SetMin(at)
                         key == PySlice(txt, i, KeyEnd(txt, i))
                         v   == KeyEnd(txt, i) + 1
                     IN  Attrs(txt, ValueEnd(txt, v),
                               [k \in DOMAIN attr \cup {key} |->
                                   IF k = key THEN Value(txt, v) ELSE attr[k]])
        Get_(attr, key) == IF key \in DOMAIN attr THEN attr[key] ELSE NoneVal
        RECURSIVE Parse(_, _, _, _)
        Parse(pos, out_pos, text_parts, entities) ==
            LET opens == {i \in pos..(Len(marked) - 1) : OpensAt(i)}
            IN  IF opens = {}
                THEN [text |-> text_parts \o PyFrom(marked, pos), entities |-> entities]
                ELSE LET m      == SetMin(opens)
                         m_end  == Bracket(m) + 2
                         attr   == Attrs(strip(PySlice(marked, m + Len(ENT_OPEN), Bracket(m))),
                                         0, <<>>)
                         closes == {i \in m_end..(Len(marked) - 1) :
                                       PySlice(marked, i, i + Len(ENT_CLOSE)) = ENT_CLOSE}
                         parts  == text_parts \o PySlice(marked, pos, m)
                     IN  IF closes = {}
                         THEN [text |-> parts, entities |-> entities]
                         ELSE LET close     == SetMin(closes)
                                  span_text == PySlice(marked, m_end, close)
                              IN  Parse(close + Len(ENT_CLOSE), out_pos + Len(span_text),
                                        parts \o span_text,
                                        Append(entities,
                                               [id |-> Get_(attr, <<"i", "d">>),
                                                type |-> Get_(attr, <<"t", "y", "p", "e">>),
                                                text |-> span_text,
                                                start_char |-> out_pos,
                                                end_char |-> out_pos + Len(span_text),
                                                normalized |-> Get_(attr, <<"n", "o", "r", "m">>)]))
    IN  Parse(0, 0, <<>>, <<>>)

MarkIdle == mark = [pc |-> "idle"]

\* A text made of at most MaxPieces pieces, some of which look like
\* markers, and a list of at most MaxSpans entities, in any order: each
\* spans a run of pieces, or has the offsets (-1, -1) of an entity that
\* was placed nowhere; no two of them overlap.
MarkInit ==
    LET Pieces == {<<"x">>, <<"]">>, ENT_OPEN, ENT_CLOSE}
        Attributes ==
            {[id |-> <<"1">>, type |-> <<"A">>, normalized |-> <<>>],
             [id |-> <<"1">>, type |-> <<"A">>, normalized |-> <<"n", " ", "m">>],
             [id |-> <<"1">>, type |-> <<"A">>, normalized |-> <<"n", "dq", "m">>]}
        Second == [id |-> <<"2">>, type |-> <<"A">>, normalized |-> <<>>]
        RECURSIVE Join(_)
        Join(ps) == IF ps = <<>> THEN <<>> ELSE Head(ps) \o Join(Tail(ps))
    IN  \E ps \in SeqsUpTo(Pieces, MaxPieces), first \in Attributes :
            LET text    == Join(ps)
                Cut(i)  == Len(Join(SubSeq(ps, 1, i)))
                Spans   == {<<Cut(i), Cut(j)>> : i, j \in 0..Len(ps)} \cup {<<-1, -1>>}
                Valid   == {s \in Spans : s[1] < s[2] \/ s[1] = -1}
            IN  \E spans \in SeqsUpTo(Valid, MaxSpans) :
                    /\ \A a, b \in DOMAIN spans :
                          (a # b /\ spans[a][1] >= 0 /\ spans[b][1] >= 0)
                              => (spans[a][2] <= spans[b][1] \/ spans[b][2] <= spans[a][1])
                    /\ mark = [pc |-> "edited", text |-> text,
                               entities |->
                                   [k \in DOMAIN spans |->
                                       LET at == IF k = 1 THEN first ELSE Second
                                       IN  [id |-> at.id, type |-> at.type,
                                            text |-> PySlice(text, spans[k][1], spans[k][2]),
                                            start_char |-> spans[k][1],
                                            end_char |-> spans[k][2],
                                            normalized |-> at.normalized]],
                               marked |-> <<>>,
                               out |-> [text |-> <<>>, entities |-> <<>>]]

\* save_file(path, text, entities)
SaveFile ==
    /\ mark.pc = "edited"
    /\ mark' = [mark EXCEPT !.pc = "saved",
                            !.marked = text_with_markers(mark.text, mark.entities)]

\* load_file(path)
LoadFile ==
    /\ mark.pc = "saved"
    /\ mark' = [mark EXCEPT
            !.pc = "loaded",
            !.out = IF \E i \in 0..Len(mark.marked) :
                          PySlice(mark.marked, i, i + Len(ENT_OPEN)) = ENT_OPEN
                    THEN parse_marked_text(mark.marked)
                    ELSE [text |-> mark.marked, entities |-> <<>>]]

MarkNext ==
    \/ SaveFile
    \/ LoadFile

\* Claim C29: for a text and a list of entities that lie within the text
\* and do not overlap, parsing the text written with markers gives the
\* text back and, for every entity, an entity of the same start_char,
\* end_char and text.
C29_MarkerRoundTrip ==
    LET InBounds(e) == 0 <= e.start_char /\ e.start_char < e.end_char
                       /\ e.end_char <= Len(mark.text)
        Same(e, f) == /\ e.start_char = f.start_char
                      /\ e.end_char = f.end_char
                      /\ e.text = f.text
    IN  (mark.pc = "loaded" /\ \A k \in DOMAIN mark.entities : InBounds(mark.entities[k]))
            => /\ mark.out.text = mark.text
               /\ Len(mark.out.entities) = Len(mark.entities)
               /\ \A k \in DOMAIN mark.entities :
                     \E j \in DOMAIN mark.out.entities :
                         Same(mark.entities[k], mark.out.entities[j])

OrchIdle == orch = [pc |-> "idle"]

Init == OrchInit /\ SplitIdle /\ CanonIdle /\ HierIdle /\ DedupIdle /\ FillIdle /\ OffsIdle /\ NerIdle /\ PostIdle /\ PruneIdle /\ FinalIdle /\ CycIdle /\ MarkIdle

Next == OrchNext /\ UNCHANGED <<split, canon, hier, dedup, fill, offs, ner, clean, prune, final, cyc, mark>>

Spec == Init /\ [][Next]_vars

InitSplit == SplitInit /\ OrchIdle /\ CanonIdle /\ HierIdle /\ DedupIdle /\ FillIdle /\ OffsIdle /\ NerIdle /\ PostIdle /\ PruneIdle /\ FinalIdle /\ CycIdle /\ MarkIdle

NextSplit == SplitNext /\ UNCHANGED <<orch, canon, hier, dedup, fill, offs, ner, clean, prune, final, cyc, mark>>

SpecSplit == InitSplit /\ [][NextSplit]_vars

InitCanon == CanonInit /\ OrchIdle /\ SplitIdle /\ HierIdle /\ DedupIdle /\ FillIdle /\ OffsIdle /\ NerIdle /\ PostIdle /\ PruneIdle /\ FinalIdle /\ CycIdle /\ MarkIdle

NextCanon == CanonNext /\ UNCHANGED <<orch, split, hier, dedup, fill, offs, ner, clean, prune, final, cyc, mark>>

SpecCanon == InitCanon /\ [][NextCanon]_vars

InitHier == HierInit /\ OrchIdle /\ SplitIdle /\ CanonIdle /\ DedupIdle /\ FillIdle /\ OffsIdle /\ NerIdle /\ PostIdle /\ PruneIdle /\ FinalIdle /\ CycIdle /\ MarkIdle

NextHier == HierNext /\ UNCHANGED <<orch, split, canon, dedup, fill, offs, ner, clean, prune, final, cyc, mark>>

SpecHier == InitHier /\ [][NextHier]_vars

InitDedup == DedupInit /\ OrchIdle /\ SplitIdle /\ CanonIdle /\ HierIdle /\ FillIdle /\ OffsIdle /\ NerIdle /\ PostIdle /\ PruneIdle /\ FinalIdle /\ CycIdle /\ MarkIdle

NextDedup == DedupNext /\ UNCHANGED <<orch, split, canon, hier, fill, offs, ner, clean, prune, final, cyc, mark>>

SpecDedup == InitDedup /\ [][NextDedup]_vars

InitFill == FillInit /\ OrchIdle /\ SplitIdle /\ CanonIdle /\ HierIdle /\ DedupIdle /\ OffsIdle /\ NerIdle /\ PostIdle /\ PruneIdle /\ FinalIdle /\ CycIdle /\ MarkIdle

NextFill == FillNext /\ UNCHANGED <<orch, split, canon, hier, dedup, offs, ner, clean, prune, final, cyc, mark>>

SpecFill == InitFill /\ [][NextFill]_vars

InitOffs == OffsInit /\ OrchIdle /\ SplitIdle /\ CanonIdle /\ HierIdle /\ DedupIdle /\ FillIdle /\ NerIdle /\ PostIdle /\ PruneIdle /\ FinalIdle /\ CycIdle /\ MarkIdle

NextOffs == OffsNext /\ UNCHANGED <<orch, split, canon, hier, dedup, fill, ner, clean, prune, final, cyc, mark>>

SpecOffs == InitOffs /\ [][NextOffs]_vars

InitNer == NerInit /\ OrchIdle /\ SplitIdle /\ CanonIdle /\ HierIdle /\ DedupIdle /\ FillIdle /\ OffsIdle /\ PostIdle /\ PruneIdle /\ FinalIdle /\ CycIdle /\ MarkIdle

NextNer == NerNext /\ UNCHANGED <<orch, split, canon, hier, dedup, fill, offs, clean, prune, final, cyc, mark>>

SpecNer == InitNer /\ [][NextNer]_vars

InitPost == PostInit /\ OrchIdle /\ SplitIdle /\ CanonIdle /\ HierIdle /\ DedupIdle /\ FillIdle /\ OffsIdle /\ NerIdle /\ PruneIdle /\ FinalIdle /\ CycIdle /\ MarkIdle

NextPost == PostNext /\ UNCHANGED <<orch, split, canon, hier, dedup, fill, offs, ner, prune, final, cyc, mark>>

SpecPost == InitPost /\ [][NextPost]_vars

InitPrune == PruneInit /\ OrchIdle /\ SplitIdle /\ CanonIdle /\ HierIdle /\ DedupIdle /\ FillIdle /\ OffsIdle /\ NerIdle /\ PostIdle /\ FinalIdle /\ CycIdle /\ MarkIdle

NextPrune == PruneNext /\ UNCHANGED <<orch, split, canon, hier, dedup, fill, offs, ner, clean, final, cyc, mark>>

SpecPrune == InitPrune /\ [][NextPrune]_vars

InitFinal == FinalInit /\ OrchIdle /\ SplitIdle /\ CanonIdle /\ HierIdle /\ DedupIdle /\ FillIdle /\ OffsIdle /\ NerIdle /\ PostIdle /\ PruneIdle /\ CycIdle /\ MarkIdle

NextFinal == FinalNext /\ UNCHANGED <<orch, split, canon, hier, dedup, fill, offs, ner, clean, prune, cyc, mark>>

SpecFinal == InitFinal /\ [][NextFinal]_vars

InitCycles == CycInit /\ OrchIdle /\ SplitIdle /\ CanonIdle /\ HierIdle /\ DedupIdle /\ FillIdle /\ OffsIdle /\ NerIdle /\ PostIdle /\ PruneIdle /\ FinalIdle /\ MarkIdle

NextCycles == CycNext /\ UNCHANGED <<orch, split, canon, hier, dedup, fill, offs, ner, clean, prune, final, mark>>

SpecCycles == InitCycles /\ [][NextCycles]_vars

InitMarkers == MarkInit /\ OrchIdle /\ SplitIdle /\ CanonIdle /\ HierIdle /\ DedupIdle /\ FillIdle /\ OffsIdle /\ NerIdle /\ PostIdle /\ PruneIdle /\ FinalIdle /\ CycIdle

NextMarkers == MarkNext /\ UNCHANGED <<orch, split, canon, hier, dedup, fill, offs, ner, clean, prune, final, cyc>>

SpecMarkers == InitMarkers /\ [][NextMarkers]_vars

\* A call of split_for_pass2 runs the iterations of its loop one after the
\* other until the loop ends: a step of the loop that stays possible is
\* taken.  This is WF_vars(NextSplit), with ENABLED <<NextSplit>>_vars
\* written out as LoopEnabled.
InitSplitFair == split = [pc |-> "start"] /\ OrchIdle /\ CanonIdle /\ HierIdle /\ DedupIdle /\ FillIdle /\ OffsIdle /\ NerIdle /\ PostIdle /\ PruneIdle /\ FinalIdle /\ CycIdle /\ MarkIdle

NextSplitFair == (SplitCall \/ SplitIter \/ SplitReturn) /\ UNCHANGED <<orch, canon, hier, dedup, fill, offs, ner, clean, prune, final, cyc, mark>>

LoopEnabled ==
    /\ split.pc = "loop"
    /\ split.i >= Len(split.tokens) \/ Len(split.chunks) < MaxEmitted

SpecSplitFair ==
    /\ InitSplitFair
    /\ [][NextSplitFair]_vars
    /\ []<>(~LoopEnabled) \/ []<><<NextSplit>>_vars

====
